---- MODULE Spec2Model ----
(***************************************************************************)
(* Multi-tenant log ingestion pipeline:                                    *)
(*   api-service/main.py      the Gateway (POST /ingest)                   *)
(*   worker-service/worker.py the Worker  (POST /process, Pub/Sub push)    *)
(* The queue (Pub/Sub) and the store (Firestore) are the environment: the  *)
(* queue redelivers every item whose delivery was not answered with a      *)
(* success status, the store's set() overwrites the document at a path or  *)
(* raises.                                                                 *)
(*                                                                         *)
(* Python values are records [t |-> type tag, v |-> payload]; a str is a   *)
(* tuple of one-character strings. Time is counted in units of             *)
(* PROCESSING_RATE_PER_CHAR seconds (the simulated delay of one character),*)
(* and the clock is followed only while some attempt is in its delay: the  *)
(* time that passes while no attempt sleeps orders no two events.          *)
(***************************************************************************)
EXTENDS Integers, Sequences, FiniteSets, TLC

\* ---------------------------------------------------------------- bounds
\* requests handled by the Gateway in one behaviour
MaxRequests == 2
\* deliveries the queue makes to the Worker in one behaviour
MaxAttempts == 2
\* items put on the subscription by a publisher other than the Gateway
MaxForeign == 2
\* pieces that a text given to the redaction is made of
MaxSegments == 5

\* ------------------------------------------------- configuration values
\* api-service/main.py:34-37, at a small setting of the environment variables
MAX_TEXT_LENGTH == 2
MIN_TEXT_LENGTH == 1
MAX_TENANT_ID_LENGTH == 3
MAX_LOG_ID_LENGTH == 2
\* worker.py:26, 0.05 s per character, in hundredths of a second
PROCESSING_RATE_PER_CHAR == 5

\* ------------------------------------------------------------- the state
VARIABLES
    now,        \* the clock
    reqs,       \* the requests the Gateway has answered, in order
    uuids,      \* the number of uuid4() calls made
    items,      \* what the subscription holds, by item: [envelope, state]
    attempts,   \* the deliveries made to the Worker, in order
    store,      \* the documents of the store
    writes,     \* the writes the store accepted, in order: [attempt, after],
                \* after being the store as the write left it
    gateway,    \* the Gateway process: [project_id, topic_id, state], state
                \* being "importing", "serving" or "fatal"
    redaction_patterns    \* the list REDACTION_PATTERNS the Worker process loaded

\* ---------------------------------------------------------- Python values
Str(s) == [t |-> "str", v |-> s]
None == [t |-> "null", v |-> <<>>]
\* a non-zero JSON number
Num == [t |-> "num", v |-> <<>>]
\* a JSON array
List == [t |-> "list", v |-> <<>>]
\* a JSON object: v is the dict, a function from its keys
Obj(d) == [t |-> "obj", v |-> d]

\* bool(x) of Python for the values above
Truthy(x) ==
    CASE x.t = "str" -> Len(x.v) > 0
      [] x.t = "null" -> FALSE
      [] x.t = "num" -> TRUE
      [] x.t = "list" -> FALSE
      [] x.t = "obj" -> DOMAIN x.v # {}
      [] OTHER -> FALSE

\* dict.get(key), dict.get(key, default)
Get(d, key) == IF key \in DOMAIN d THEN d[key] ELSE None
GetOr(d, key, default) == IF key \in DOMAIN d THEN d[key] ELSE default

\* ------------------------------------------------------------ characters
Digits == {"0", "1", "2", "3", "4", "5", "6", "7", "8", "9"}
LowerCase ==
    <<"a", "b", "c", "d", "e", "f", "g", "h", "i", "j", "k", "l", "m",
      "n", "o", "p", "q", "r", "s", "t", "u", "v", "w", "x", "y", "z">>
UpperCase ==
    <<"A", "B", "C", "D", "E", "F", "G", "H", "I", "J", "K", "L", "M",
      "N", "O", "P", "Q", "R", "S", "T", "U", "V", "W", "X", "Y", "Z">>
Letters == {LowerCase[i] : i \in 1..26} \cup {UpperCase[i] : i \in 1..26}
Spaces == {" ", "\t", "\n"}

\* str.lower()
LowerChar(c) ==
    IF \E i \in 1..26 : UpperCase[i] = c
    THEN LowerCase[CHOOSE i \in 1..26 : UpperCase[i] = c]
    ELSE c
Lower(s) == [i \in 1..Len(s) |-> LowerChar(s[i])]

\* sub in s
Contains(s, sub) ==
    \E k \in 0..(Len(s) - Len(sub)) :
        \A i \in 1..Len(sub) : s[k + i] = sub[i]

\* ------------------------------------------------------------- Validator
\* re.match(r'^[a-zA-Z0-9_-]+$', s): '$' also matches just before a final "\n"
TENANT_ID_PATTERN(s) ==
    LET InClass(c) == c \in Letters \cup Digits \cup {"_", "-"}
        AllIn(n) == n >= 1 /\ \A i \in 1..n : InClass(s[i])
    IN  \/ AllIn(Len(s))
        \/ Len(s) >= 2 /\ s[Len(s)] = "\n" /\ AllIn(Len(s) - 1)

validate_tenant_id(tenant_id) ==
    IF ~Truthy(tenant_id) \/ tenant_id.t # "str" THEN FALSE
    ELSE IF Len(tenant_id.v) > MAX_TENANT_ID_LENGTH THEN FALSE
    ELSE IF ~TENANT_ID_PATTERN(tenant_id.v) THEN FALSE
    ELSE TRUE

\* validate_text with the upper limit itself refused
validate_text_exclusive(text) ==
    IF text.t # "str" THEN [ok |-> FALSE, msg |-> "Text must be a string"]
    ELSE IF Len(text.v) < MIN_TEXT_LENGTH
         THEN [ok |-> FALSE, msg |-> "Text must be at least MIN_TEXT_LENGTH character(s)"]
    ELSE IF Len(text.v) >= MAX_TEXT_LENGTH
         THEN [ok |-> FALSE, msg |-> "Text exceeds maximum length of MAX_TEXT_LENGTH characters"]
    ELSE [ok |-> TRUE, msg |-> ""]

validate_text(text) ==
    IF text.t # "str" THEN [ok |-> FALSE, msg |-> "Text must be a string"]
    ELSE IF Len(text.v) < MIN_TEXT_LENGTH
         THEN [ok |-> FALSE, msg |-> "Text must be at least MIN_TEXT_LENGTH character(s)"]
    ELSE IF Len(text.v) > MAX_TEXT_LENGTH
         THEN [ok |-> FALSE, msg |-> "Text exceeds maximum length of MAX_TEXT_LENGTH characters"]
    ELSE [ok |-> TRUE, msg |-> ""]

\* len(str(log_id)) for the values a truthy log_id can take
StrLen(x) == IF x.t = "str" THEN Len(x.v) ELSE 1

\* ------------------------------------------------------------ Normalizer
\* a generator that gives the same identifier on every call
Uuid4Same(n) == Str(<<"u", "1">>)

\* str(uuid.uuid4()) of the n-th call: fresh on every call
UuidChars == <<"1", "2", "3", "4", "5", "6", "7", "8", "9">>
Uuid4(n) == Str(<<"u", UuidChars[n]>>)

\* the message when nothing was normalized
NoMessage ==
    [tenant_id |-> None, log_id |-> None, text |-> None,
     source |-> "none", received_at |-> 0]

normalize_to_internal_format(data, source_type, uuid, utcnow) ==
    [tenant_id |-> Get(data, "tenant_id"),
     log_id |-> GetOr(data, "log_id", uuid),
     text |-> GetOr(data, "text", Str(<<>>)),
     source |-> source_type,
     received_at |-> utcnow]

\* --------------------------------------------------------------- Redactor
\* A configured pattern: [valid |-> re.compile accepts it, atoms |-> its atoms],
\* an atom being "\\d", "\\s*" or a literal character.
\* REDACTION_PATTERNS is the default of the environment variable.
REDACTION_PATTERNS ==
    << [valid |-> TRUE,
        atoms |-> <<"\\d", "\\d", "\\d", "-", "\\d", "\\d", "\\d", "\\d">>],
       [valid |-> TRUE,
        atoms |-> <<"\\d", "\\d", "\\d", "-", "\\d", "\\d", "\\d", "-",
                    "\\d", "\\d", "\\d", "\\d">>],
       [valid |-> TRUE,
        atoms |-> <<"(", "\\d", "\\d", "\\d", ")", "\\s*",
                    "\\d", "\\d", "\\d", "-", "\\d", "\\d", "\\d", "\\d">>] >>

\* a replacement that masks the number with digits
REDACTED_MASK == <<"5", "5", "5", "5", "-", "5", "5", "5", "5">>

\* the replacement of re.sub
REDACTED == <<"[", "R", "E", "D", "A", "C", "T", "E", "D", "]">>

AtomMatches(atom, c) ==
    IF atom = "\\d" THEN c \in Digits ELSE atom = c

\* the number of whitespace characters of s from position i on
RECURSIVE SpaceRun(_, _)
SpaceRun(s, i) ==
    IF i <= Len(s) /\ s[i] \in Spaces THEN 1 + SpaceRun(s, i + 1) ELSE 0

\* The position after the match of atoms[k..] at position i of s, or 0 when there
\* is none; "\\s*" is greedy and gives characters back on failure.
RECURSIVE MatchFrom(_, _, _, _)
RECURSIVE MatchStar(_, _, _, _, _)
MatchFrom(atoms, k, s, i) ==
    IF k > Len(atoms) THEN i
    ELSE IF atoms[k] = "\\s*" THEN MatchStar(atoms, k, s, i, SpaceRun(s, i))
    ELSE IF i <= Len(s) /\ AtomMatches(atoms[k], s[i])
         THEN MatchFrom(atoms, k + 1, s, i + 1)
    ELSE 0
MatchStar(atoms, k, s, i, n) ==
    LET r == MatchFrom(atoms, k + 1, s, i + n)
    IN  IF r # 0 THEN r
        ELSE IF n = 0 THEN 0
        ELSE MatchStar(atoms, k, s, i, n - 1)

\* re.sub(pattern, '[REDACTED]', s) from position i on: leftmost matches, not
\* overlapping, left to right
RECURSIVE ReSub(_, _, _)
ReSub(atoms, s, i) ==
    IF i > Len(s) THEN <<>>
    ELSE LET e == MatchFrom(atoms, 1, s, i)
         IN  IF e # 0 THEN REDACTED \o ReSub(atoms, s, e)
             ELSE <<s[i]>> \o ReSub(atoms, s, i + 1)

\* the loop over the patterns without the try: the first invalid pattern ends it
RECURSIVE RedactWithAbort(_, _, _)
RedactWithAbort(patterns, k, result) ==
    IF k > Len(patterns) THEN result
    ELSE IF patterns[k].valid
         THEN RedactWithAbort(patterns, k + 1, ReSub(patterns[k].atoms, result, 1))
    ELSE result

RECURSIVE RedactWith(_, _, _)
RedactWith(patterns, k, result) ==
    IF k > Len(patterns) THEN result
    ELSE IF patterns[k].valid
         THEN RedactWith(patterns, k + 1, ReSub(patterns[k].atoms, result, 1))
    ELSE RedactWith(patterns, k + 1, result)

\* redact_phone_numbers returning its argument
redact_phone_numbers_none(text) == text

redact_phone_numbers(text) == RedactWith(redaction_patterns, 1, text)

\* ---------------------------------------------------------------- Gateway
APPLICATION_JSON ==
    <<"a", "p", "p", "l", "i", "c", "a", "t", "i", "o", "n", "/", "j", "s", "o", "n">>
TEXT_PLAIN == <<"t", "e", "x", "t", "/", "p", "l", "a", "i", "n">>

\* A request: [content_type |-> the Content-Type header (None when absent),
\*             x_tenant_id  |-> the X-Tenant-ID header (None when absent),
\*             json |-> what request.json() gives (t = "error" when it raises),
\*             utf8 |-> what body.decode("utf-8") gives (t = "error" when it raises)]
JsonError == [t |-> "error", v |-> <<>>]

Rejected(code, why) ==
    [status |-> code, body |-> [detail |-> why], message |-> NoMessage,
     publish |-> "none", publishes |-> 0]

\* publish_to_pubsub with the 202 body carrying the publisher's message id
publish_to_pubsub_handle(normalized, pub) ==
    IF pub = "raises"
    THEN [status |-> 500,
          body |-> [detail |-> "Failed to queue message for processing"],
          message |-> normalized, publish |-> "raised", publishes |-> 1]
    ELSE [status |-> 202,
          body |-> [status |-> "accepted",
                    tenant_id |-> normalized.tenant_id,
                    log_id |-> normalized.log_id,
                    message_id |-> "1"],
          message |-> normalized, publish |-> "pending", publishes |-> 1]

\* publish_to_pubsub calling publisher.publish once more when the call raised
publish_to_pubsub_again(normalized, pub) ==
    IF pub = "raises"
    THEN [status |-> 500,
          body |-> [detail |-> "Failed to queue message for processing"],
          message |-> normalized, publish |-> "raised", publishes |-> 2]
    ELSE [status |-> 202,
          body |-> [status |-> "accepted",
                    tenant_id |-> normalized.tenant_id,
                    log_id |-> normalized.log_id],
          message |-> normalized, publish |-> "pending", publishes |-> 1]

\* publish_to_pubsub and the response that follows it; pub is what
\* publisher.publish does: "raises", or "future" (it returns a future);
\* publishes counts the calls of publisher.publish
publish_to_pubsub(normalized, pub) ==
    IF pub = "raises"
    THEN [status |-> 500,
          body |-> [detail |-> "Failed to queue message for processing"],
          message |-> normalized, publish |-> "raised", publishes |-> 1]
    ELSE [status |-> 202,
          body |-> [status |-> "accepted",
                    tenant_id |-> normalized.tenant_id,
                    log_id |-> normalized.log_id],
          message |-> normalized, publish |-> "pending", publishes |-> 1]

\* POST /ingest reading a text body that parses as a JSON object as the JSON
\* variant does: tenant_id and log_id of the body go into the message
ingest_sniffing(request, uuid, utcnow, pub) ==
    LET content_type ==
            IF request.content_type.t = "null" THEN <<>>
            ELSE Lower(request.content_type.v)
    IN
    IF Contains(content_type, APPLICATION_JSON) THEN
        LET body == request.json
            tenant_id == Get(body.v, "tenant_id")
            text == GetOr(body.v, "text", Str(<<>>))
            log_id == Get(body.v, "log_id")
        IN  IF body.t = "error" THEN Rejected(400, "Invalid JSON payload")
            ELSE IF body.t # "obj"
                 THEN Rejected(400, "Invalid JSON payload: expected object")
            ELSE IF ~Truthy(tenant_id)
                 THEN Rejected(400, "Missing required field: tenant_id")
            ELSE IF ~validate_tenant_id(tenant_id)
                 THEN Rejected(400, "Invalid tenant_id format")
            ELSE IF ~validate_text(text).ok
                 THEN Rejected(400, validate_text(text).msg)
            ELSE IF Truthy(log_id) /\ StrLen(log_id) > MAX_LOG_ID_LENGTH
                 THEN Rejected(400, "log_id exceeds maximum length")
            ELSE publish_to_pubsub(
                     normalize_to_internal_format(body.v, "json_upload", uuid, utcnow),
                     pub)
    ELSE IF Contains(content_type, TEXT_PLAIN) THEN
        LET x_tenant_id == request.x_tenant_id
            text == request.utf8
        IN  IF ~Truthy(x_tenant_id)
            THEN Rejected(400, "Missing required header: X-Tenant-ID")
            ELSE IF ~validate_tenant_id(x_tenant_id)
                 THEN Rejected(400, "Invalid X-Tenant-ID format")
            ELSE IF text.t = "error"
                 THEN Rejected(400, "Text payload must be valid UTF-8")
            ELSE IF ~validate_text(text).ok
                 THEN Rejected(400, validate_text(text).msg)
            ELSE publish_to_pubsub(
                     normalize_to_internal_format(
                         IF request.json.t = "obj" THEN request.json.v
                         ELSE [tenant_id |-> x_tenant_id, text |-> text],
                         "text_upload", uuid, utcnow),
                     pub)
    ELSE Rejected(415, "Unsupported content type")

\* POST /ingest: the response, the normalized message and the state of its publish
ingest(request, uuid, utcnow, pub) ==
    LET content_type ==
            IF request.content_type.t = "null" THEN <<>>
            ELSE Lower(request.content_type.v)
    IN
    IF Contains(content_type, APPLICATION_JSON) THEN
        LET body == request.json
            tenant_id == Get(body.v, "tenant_id")
            text == GetOr(body.v, "text", Str(<<>>))
            log_id == Get(body.v, "log_id")
        IN  IF body.t = "error" THEN Rejected(400, "Invalid JSON payload")
            ELSE IF body.t # "obj"
                 THEN Rejected(400, "Invalid JSON payload: expected object")
            ELSE IF ~Truthy(tenant_id)
                 THEN Rejected(400, "Missing required field: tenant_id")
            ELSE IF ~validate_tenant_id(tenant_id)
                 THEN Rejected(400, "Invalid tenant_id format")
            ELSE IF ~validate_text(text).ok
                 THEN Rejected(400, validate_text(text).msg)
            ELSE IF Truthy(log_id) /\ StrLen(log_id) > MAX_LOG_ID_LENGTH
                 THEN Rejected(400, "log_id exceeds maximum length")
            ELSE publish_to_pubsub(
                     normalize_to_internal_format(body.v, "json_upload", uuid, utcnow),
                     pub)
    ELSE IF Contains(content_type, TEXT_PLAIN) THEN
        LET x_tenant_id == request.x_tenant_id
            text == request.utf8
        IN  IF ~Truthy(x_tenant_id)
            THEN Rejected(400, "Missing required header: X-Tenant-ID")
            ELSE IF ~validate_tenant_id(x_tenant_id)
                 THEN Rejected(400, "Invalid X-Tenant-ID format")
            ELSE IF text.t = "error"
                 THEN Rejected(400, "Text payload must be valid UTF-8")
            ELSE IF ~validate_text(text).ok
                 THEN Rejected(400, validate_text(text).msg)
            ELSE publish_to_pubsub(
                     normalize_to_internal_format(
                         [tenant_id |-> x_tenant_id, text |-> text],
                         "text_upload", uuid, utcnow),
                     pub)
    ELSE Rejected(415, "Unsupported content type")

\* -------------------------------------------------- the delivery envelope
\* json.dumps(x).encode("utf-8"), then the push subscription's base64 of it
JsonDumps(x) == [enc |-> "json", of |-> x]
Utf8Encode(x) == [enc |-> "utf-8", of |-> x]
B64Encode(x) == [enc |-> "base64", of |-> x]
Garbage == [enc |-> "garbage", of |-> None]

\* base64.b64decode, bytes.decode("utf-8"), json.loads: the value, or a raise
B64Decode(x) ==
    IF x.enc = "base64" THEN [raised |-> FALSE, val |-> x.of]
    ELSE [raised |-> TRUE, val |-> Garbage]
Utf8Decode(x) ==
    IF x.enc = "utf-8" THEN [raised |-> FALSE, val |-> x.of]
    ELSE [raised |-> TRUE, val |-> Garbage]
JsonLoads(x) ==
    IF x.enc = "json" THEN [raised |-> FALSE, val |-> x.of]
    ELSE [raised |-> TRUE, val |-> None]

\* the envelope the push subscription posts for a message's bytes
PushEnvelope(message_bytes) ==
    [message |-> [data |-> B64Encode(message_bytes)]]

\* ----------------------------------------------------------------- Worker
\* d[key] = val
SetItem(d, key, val) ==
    [k \in DOMAIN d \cup {key} |-> IF k = key THEN val ELSE d[k]]

\* len(x) is defined for str, list and dict; the list and the dict modelled are empty
HasLen(x) == x.t \in {"str", "list", "obj"}
PyLen(x) == IF x.t = "str" THEN Len(x.v) ELSE 0

\* simulate_heavy_processing with a delay that does not depend on the text
simulate_heavy_processing_flat(text) == PROCESSING_RATE_PER_CHAR

\* sleep_duration = char_count * PROCESSING_RATE_PER_CHAR, in hundredths of a second
simulate_heavy_processing(text) == PyLen(text) * PROCESSING_RATE_PER_CHAR

\* process_pubsub_push up to json.loads: status 0 when the envelope decoded
decode_envelope(envelope) ==
    IF "message" \notin DOMAIN envelope
    THEN [status |-> 400, message_data |-> None]
    ELSE IF "data" \notin DOMAIN envelope.message
    THEN [status |-> 400, message_data |-> None]
    ELSE LET raw == B64Decode(envelope.message.data)
             message_data_str == Utf8Decode(raw.val)
             loaded == JsonLoads(message_data_str.val)
         IN  IF raw.raised \/ message_data_str.raised \/ loaded.raised
             THEN [status |-> 500, message_data |-> None]
             ELSE [status |-> 0, message_data |-> loaded.val]

\* process_message up to the call of time.sleep: what it returns at once
\* ("False"), or "sleep" with the duration
process_message_begin(message_data) ==
    IF message_data.t # "obj" THEN [next |-> "False", sleep |-> 0]
    ELSE LET tenant_id == Get(message_data.v, "tenant_id")
             log_id == Get(message_data.v, "log_id")
             text == GetOr(message_data.v, "text", Str(<<>>))
         IN  IF ~Truthy(tenant_id) \/ ~Truthy(log_id)
             THEN [next |-> "False", sleep |-> 0]
             ELSE IF ~HasLen(text) THEN [next |-> "False", sleep |-> 0]
             ELSE [next |-> "sleep", sleep |-> simulate_heavy_processing(text)]

\* process_message from the return of time.sleep to the call of
\* write_to_firestore: re.sub raises on a text that is no str
process_message_redact(message_data, processing_time) ==
    LET text == GetOr(message_data.v, "text", Str(<<>>))
    IN  IF text.t # "str" THEN [raised |-> TRUE, message_data |-> message_data]
        ELSE [raised |-> FALSE,
              message_data |->
                  Obj(SetItem(SetItem(message_data.v, "modified_text",
                                      Str(redact_phone_numbers(text.v))),
                              "processing_time", processing_time))]

\* doc_data taking source and received_at from the Worker, not from the message
doc_data_restamped(data, utcnow) ==
    [source |-> "unknown",
     original_text |-> GetOr(data, "text", Str(<<>>)),
     modified_data |-> GetOr(data, "modified_text", Str(<<>>)),
     processed_at |-> utcnow,
     received_at |-> utcnow,
     processing_time |-> GetOr(data, "processing_time", 0),
     char_count |-> PyLen(GetOr(data, "text", Str(<<>>)))]

\* the store: a set of documents [tenant, log, doc], doc the fields written
doc_data(data, utcnow) ==
    [source |-> GetOr(data, "source", "unknown"),
     original_text |-> GetOr(data, "text", Str(<<>>)),
     modified_data |-> GetOr(data, "modified_text", Str(<<>>)),
     processed_at |-> utcnow,
     received_at |-> GetOr(data, "received_at", 0),
     processing_time |-> GetOr(data, "processing_time", 0),
     char_count |-> PyLen(GetOr(data, "text", Str(<<>>)))]

NoDoc ==
    [source |-> "none", original_text |-> None, modified_data |-> None,
     processed_at |-> 0, received_at |-> 0, processing_time |-> 0, char_count |-> 0]

\* doc_ref.create(doc) in place of set: an existing document is kept
DocumentSetIfAbsent(st, tenant_id, log_id, doc) ==
    IF \E d \in st : d.tenant = tenant_id /\ d.log = log_id THEN st
    ELSE st \cup {[tenant |-> tenant_id, log |-> log_id, doc |-> doc]}

\* collection.add(doc) in place of set: every write makes a document
DocumentAdd(st, tenant_id, log_id, doc) ==
    st \cup {[tenant |-> tenant_id, log |-> log_id, doc |-> doc]}

\* a set that is not atomic: the fields of an existing document are replaced
\* but for processed_at and modified_data
DocumentSetTorn(st, tenant_id, log_id, doc) ==
    {d \in st : ~(d.tenant = tenant_id /\ d.log = log_id)}
        \cup {[tenant |-> tenant_id, log |-> log_id,
               doc |-> [doc EXCEPT !.processed_at = old.doc.processed_at,
                                   !.modified_data = old.doc.modified_data]] :
                  old \in {d \in st : d.tenant = tenant_id /\ d.log = log_id}}
        \cup (IF \E d \in st : d.tenant = tenant_id /\ d.log = log_id THEN {}
              ELSE {[tenant |-> tenant_id, log |-> log_id, doc |-> doc]})

\* a set on the tenant's document that drops its subcollection: the tenant's
\* other documents are lost
DocumentSetTenantWide(st, tenant_id, log_id, doc) ==
    {d \in st : d.tenant # tenant_id}
        \cup {[tenant |-> tenant_id, log |-> log_id, doc |-> doc]}

\* doc_ref.set(doc): the document at the path is replaced, or created
DocumentSet(st, tenant_id, log_id, doc) ==
    {d \in st : ~(d.tenant = tenant_id /\ d.log = log_id)}
        \cup {[tenant |-> tenant_id, log |-> log_id, doc |-> doc]}

\* write_to_firestore with one collection for all tenants: the path is the log_id
write_to_firestore_flat(st, tenant_id, log_id, data, utcnow, up) ==
    IF tenant_id.t # "str" \/ log_id.t # "str" \/ ~up
    THEN [raised |-> TRUE, store |-> st, doc |-> NoDoc]
    ELSE [raised |-> FALSE,
          store |-> DocumentSet(st, <<>>, log_id.v, doc_data(data, utcnow)),
          doc |-> doc_data(data, utcnow)]

\* write_to_firestore raising after doc_ref.set has written the document
write_to_firestore_then_raise(st, tenant_id, log_id, data, utcnow, up) ==
    IF tenant_id.t # "str" \/ log_id.t # "str"
    THEN [raised |-> TRUE, store |-> st, doc |-> NoDoc]
    ELSE [raised |-> ~up,
          store |-> DocumentSet(st, tenant_id.v, log_id.v, doc_data(data, utcnow)),
          doc |-> doc_data(data, utcnow)]

\* write_to_firestore on .document() without an id: the store names the document
write_to_firestore_auto_id(st, tenant_id, log_id, data, utcnow, up) ==
    IF tenant_id.t # "str" \/ log_id.t # "str" \/ ~up
    THEN [raised |-> TRUE, store |-> st, doc |-> NoDoc]
    ELSE [raised |-> FALSE,
          store |-> DocumentSet(st, tenant_id.v, <<"auto">>, doc_data(data, utcnow)),
          doc |-> doc_data(data, utcnow)]

\* write_to_firestore: up is whether the store accepts the write
write_to_firestore(st, tenant_id, log_id, data, utcnow, up) ==
    IF tenant_id.t # "str" \/ log_id.t # "str" \/ ~up
    THEN [raised |-> TRUE, store |-> st, doc |-> NoDoc]
    ELSE [raised |-> FALSE,
          store |-> DocumentSet(st, tenant_id.v, log_id.v, doc_data(data, utcnow)),
          doc |-> doc_data(data, utcnow)]

\* the documents a read of tenants/{tenant_id}/processed_logs/{log_id} finds
Retrieve(st, tenant_id, log_id) ==
    {d \in st : d.tenant = tenant_id /\ d.log = log_id}

\* process_message with an except branch that returns True
process_message_result_swallow(raised) == TRUE
\* the handler answering 200 whatever process_message returned
response_status_ok(success) == 200

\* process_message's result and the handler's status: 200 acknowledges
process_message_result(raised) == ~raised
response_status(success) == IF success THEN 200 ELSE 500
Acknowledges(status) == status \in {102, 200, 201, 202, 204}

\* ------------------------------------------------------------ the inputs
JsonRequest(d) ==
    [content_type |-> Str(APPLICATION_JSON), x_tenant_id |-> None,
     json |-> Obj(d), utf8 |-> Str(<<"{", "}">>)]
TextRequest(tenant, text) ==
    [content_type |-> Str(TEXT_PLAIN), x_tenant_id |-> tenant,
     json |-> JsonError, utf8 |-> text]

\* the requests the clients send
Requests ==
    << JsonRequest([tenant_id |-> Str(<<"a">>), log_id |-> Str(<<"x">>),
                    text |-> Str(<<"h", "i">>)]),
       JsonRequest([tenant_id |-> Str(<<"a">>), log_id |-> Str(<<"x">>),
                    text |-> Str(<<"k">>)]),
       JsonRequest([tenant_id |-> Str(<<"b">>), log_id |-> Str(<<"x">>),
                    text |-> Str(<<"k">>)]),
       JsonRequest([tenant_id |-> Str(<<"a">>), text |-> Str(<<"k">>)]),
       JsonRequest([tenant_id |-> Str(<<"a">>), log_id |-> None,
                    text |-> Str(<<"k">>)]),
       TextRequest(Str(<<"b">>), Str(<<"h", "i">>)),
       JsonRequest([text |-> Str(<<"k">>)]),
       [content_type |-> Str(<<"a", "/", "b">>), x_tenant_id |-> Str(<<"a">>),
        json |-> JsonError, utf8 |-> Str(<<"k">>)] >>

\* a key the JSON object does not have
Absent == [t |-> "absent", v |-> <<>>]
\* the JSON object with the keys whose value is not Absent
Dict(tenant_id, log_id, text) ==
    LET val == [tenant_id |-> tenant_id, log_id |-> log_id, text |-> text]
        keys == {k \in DOMAIN val : val[k] # Absent}
    IN  [k \in keys |-> val[k]]
\* the string of n characters c
RECURSIVE Repeat(_, _)
Repeat(c, n) == IF n = 0 THEN <<>> ELSE <<c>> \o Repeat(c, n - 1)

\* The requests a client can send to POST /ingest, every field taking a value on
\* each side of every check that the handler makes.
TenantValues ==
    {Absent, None, Num, Str(<<>>), Str(<<"a">>), Str(<<"a", "\n">>),
     Str(<<"a", " ">>), Str(Repeat("a", MAX_TENANT_ID_LENGTH)),
     Str(Repeat("a", MAX_TENANT_ID_LENGTH + 1))}
\* an HTTP header is absent or a string without a line break
HeaderValues ==
    {v \in TenantValues :
        v = None \/ (v.t = "str" /\ \A i \in 1..Len(v.v) : v.v[i] # "\n")}
TextValues ==
    {Absent, Num} \cup {Str(Repeat("k", n)) : n \in 0..(MAX_TEXT_LENGTH + 1)}
LogIdValues ==
    {Absent, None, Num, Str(<<>>), Str(<<"x">>),
     Str(Repeat("x", MAX_LOG_ID_LENGTH + 1))}
TEXT_PLAIN_MIXED == <<"T", "e", "x", "t", "/", "P", "l", "a", "i", "n">>
OTHER_TYPE == <<"a", "/", "b">>
\* application/jsonl, the media type of JSON Lines
JSON_LINES == APPLICATION_JSON \o <<"l">>

JsonInputs ==
    {[content_type |-> Str(APPLICATION_JSON), x_tenant_id |-> None,
      json |-> j, utf8 |-> Str(<<"{", "}">>)] :
        j \in {JsonError, List}
                \cup {Obj(Dict(t, l, x)) :
                          t \in TenantValues, l \in LogIdValues, x \in TextValues}}
\* a body that parses as a JSON object with its own tenant_id and log_id; its
\* text is cut to what MAX_TEXT_LENGTH lets through
JSON_LOOKING == Obj(Dict(Str(<<"b">>), Str(<<"x">>), Str(<<"k">>)))
TextInputs ==
    {[content_type |-> Str(c), x_tenant_id |-> h, json |-> JsonError, utf8 |-> x] :
        c \in {TEXT_PLAIN, TEXT_PLAIN_MIXED}, h \in HeaderValues,
        x \in {JsonError} \cup (TextValues \ {Absent, Num})}
    \cup
    {[content_type |-> Str(TEXT_PLAIN), x_tenant_id |-> h, json |-> JSON_LOOKING,
      utf8 |-> Str(<<"{", "}">>)] : h \in HeaderValues}
OtherInputs ==
    {[content_type |-> c, x_tenant_id |-> h, json |-> j, utf8 |-> Str(<<"k">>)] :
        c \in {None, Str(OTHER_TYPE), Str(JSON_LINES)}, h \in {None, Str(<<"a">>)},
        j \in {JsonError,
               Obj(Dict(Str(<<"a">>), Str(<<"x">>), Str(<<"k">>)))}}
GatewayInputs == JsonInputs \cup TextInputs \cup OtherInputs

\* what a publisher other than the Gateway, or a caller other than the queue,
\* makes the Worker receive: envelopes that are malformed at each layer, and
\* well-formed ones whose message cannot be processed
ForeignEnvelopes ==
    << [subscription |-> "s"],
       [message |-> [attributes |-> "none"]],
       [message |-> [data |-> Garbage]],
       [message |-> [data |-> B64Encode(Garbage)]],
       [message |-> [data |-> B64Encode(Utf8Encode(Garbage))]],
       PushEnvelope(Utf8Encode(JsonDumps(List))),
       PushEnvelope(Utf8Encode(JsonDumps(
           Obj([log_id |-> Str(<<"x">>), text |-> Str(<<"k">>)])))),
       PushEnvelope(Utf8Encode(JsonDumps(
           Obj([tenant_id |-> Str(<<"a">>), log_id |-> Str(<<>>),
                text |-> Str(<<"k">>)])))),
       PushEnvelope(Utf8Encode(JsonDumps(
           Obj([tenant_id |-> Str(<<"a">>), log_id |-> Str(<<"x">>),
                text |-> Num])))),
       PushEnvelope(Utf8Encode(JsonDumps(
           Obj([tenant_id |-> Str(<<"a">>), log_id |-> Str(<<"x">>),
                text |-> List])))) >>

\* The texts given to the redaction: up to MaxSegments pieces out of which the
\* three shapes of phone number, and their near misses, are made.
Segments ==
    << <<"5", "5", "5">>, <<"1", "2", "3", "4">>, <<"-">>,
       <<"(", "5", "5", "5", ")">>, <<" ">>, <<"x">> >>
RECURSIVE Concat(_, _)
Concat(f, n) == IF n = 0 THEN <<>> ELSE Concat(f, n - 1) \o Segments[f[n]]
PhoneTexts ==
    UNION {{Concat(f, n) : f \in [1..n -> 1..Len(Segments)]} : n \in 1..MaxSegments}
\* the message the Gateway publishes for a JSON request with that text
PhoneMessage(text) ==
    Obj([tenant_id |-> Str(<<"a">>), log_id |-> Str(<<"x">>), text |-> Str(text),
         source |-> "json_upload", received_at |-> 0])

\* ------------------------------------------- the state at the start
vars == <<now, reqs, uuids, items, attempts, store, writes, gateway, redaction_patterns>>

\* the Gateway process started with both identity values set
Serving ==
    [project_id |-> Str(<<"p">>), topic_id |-> Str(<<"t">>), state |-> "serving"]

\* item i <= MaxRequests is the message of request i, the others are foreign
ItemIds == 1..(MaxRequests + MaxForeign)
NoItem == [envelope |-> [none |-> "none"], state |-> "none"]

Init ==
    /\ now = 0
    /\ reqs = <<>>
    /\ uuids = 0
    /\ items = [k \in ItemIds |-> NoItem]
    /\ attempts = <<>>
    /\ store = {}
    /\ writes = <<>>
    /\ gateway = Serving
    /\ redaction_patterns = REDACTION_PATTERNS

\* the clock advances while an attempt is in its simulated delay
Tick ==
    /\ \E a \in 1..Len(attempts) :
           attempts[a].pc = "Simulating" /\ now < attempts[a].wake
    /\ now' = now + 1
    /\ UNCHANGED <<reqs, uuids, items, attempts, store, writes, gateway, redaction_patterns>>

\* The Gateway answers request q, which is Requests[r] or, when r = 0, another
\* one: the response, the message and the state of its publish are recorded.
Answer(q, r, pub) ==
    LET res == ingest(q, Uuid4(uuids + 1), now, pub)
    IN  /\ reqs' = Append(reqs, [input |-> r, request |-> q, status |-> res.status,
                                 body |-> res.body, message |-> res.message,
                                 publish |-> res.publish,
                                 publishes |-> res.publishes])
        /\ uuids' = IF res.publish = "none" THEN uuids ELSE uuids + 1

\* POST /ingest answering only while the Worker is idle
IngestWhenIdle(r, pub) ==
    /\ gateway.state = "serving"
    /\ Len(reqs) < MaxRequests
    /\ \A a \in 1..Len(attempts) : attempts[a].pc \in {"Acknowledged", "Failed"}
    /\ Answer(Requests[r], r, pub)
    /\ UNCHANGED <<now, items, attempts, store, writes, gateway, redaction_patterns>>

\* POST /ingest that also writes a document for the request to the store
IngestAndStore(r, pub) ==
    /\ gateway.state = "serving"
    /\ Len(reqs) < MaxRequests
    /\ Answer(Requests[r], r, pub)
    /\ store' = DocumentSet(store, <<"a">>, <<"x">>, NoDoc)
    /\ UNCHANGED <<now, items, attempts, writes, gateway, redaction_patterns>>

\* POST /ingest with request Requests[r]
Ingest(r, pub) ==
    /\ gateway.state = "serving"
    /\ Len(reqs) < MaxRequests
    /\ Answer(Requests[r], r, pub)
    /\ UNCHANGED <<now, items, attempts, store, writes, gateway, redaction_patterns>>

\* POST /ingest with a request of GatewayInputs, the only one of the behaviour
Submit(q, pub) ==
    /\ gateway.state = "serving"
    /\ reqs = <<>>
    /\ Answer(q, 0, pub)
    /\ UNCHANGED <<now, items, attempts, store, writes, gateway, redaction_patterns>>

\* the publish future of request i completes: the queue has the message, or the
\* publish failed and the callback logs it
PublishDone(i, accepted) ==
    /\ i \in 1..Len(reqs)
    /\ reqs[i].publish = "pending"
    /\ reqs' = [reqs EXCEPT ![i].publish = IF accepted THEN "queued" ELSE "failed"]
    /\ items' = IF accepted
                THEN [items EXCEPT ![i] =
                        [envelope |->
                             PushEnvelope(Utf8Encode(JsonDumps(Obj(reqs[i].message)))),
                         state |-> "unacked"]]
                ELSE items
    /\ UNCHANGED <<now, uuids, attempts, store, writes, gateway, redaction_patterns>>

\* the subscription gets an item that the Gateway did not publish
ForeignPublish(k, f) ==
    /\ k \in ItemIds
    /\ k > MaxRequests
    /\ items[k].state = "none"
    /\ \A j \in ItemIds : (MaxRequests < j /\ j < k) => items[j].state # "none"
    /\ items' = [items EXCEPT ![k] =
                    [envelope |-> ForeignEnvelopes[f], state |-> "unacked"]]
    /\ UNCHANGED <<now, reqs, uuids, attempts, store, writes, gateway, redaction_patterns>>

\* the queue's view of a response to a delivery of item k
Responded(k, status) ==
    IF Acknowledges(status) THEN [items EXCEPT ![k].state = "acked"] ELSE items

\* The queue delivers item k, which no delivery has acknowledged: POST /process
\* runs Decode, checks the keys and starts the simulated delay.
Deliver(k) ==
    /\ k \in ItemIds
    /\ items[k].state = "unacked"
    /\ Len(attempts) < MaxAttempts
    /\ LET dec == decode_envelope(items[k].envelope)
           begin == process_message_begin(dec.message_data)
           attempt == [item |-> k, pc |-> "Received", status |-> 0,
                       message_data |-> None, processing_time |-> 0,
                       wake |-> 0, doc |-> NoDoc]
       IN  IF dec.status # 0
           THEN /\ attempts' = Append(attempts,
                        [attempt EXCEPT !.pc = "Failed", !.status = dec.status])
                /\ items' = Responded(k, dec.status)
           ELSE IF begin.next = "False"
           THEN /\ attempts' = Append(attempts,
                        [attempt EXCEPT !.pc = "Failed",
                                        !.status = response_status(FALSE),
                                        !.message_data = dec.message_data])
                /\ items' = Responded(k, response_status(FALSE))
           ELSE /\ attempts' = Append(attempts,
                        [attempt EXCEPT
                            !.pc = "Simulating",
                            !.message_data = dec.message_data,
                            !.processing_time = begin.sleep,
                            !.wake = now + (begin.sleep \div PROCESSING_RATE_PER_CHAR)])
                /\ items' = items
    /\ UNCHANGED <<now, reqs, uuids, store, writes, gateway, redaction_patterns>>

\* Redact on a message object shared with the queue: what is added to the
\* message is carried by the next delivery
RedactInPlace(a) ==
    /\ a \in 1..Len(attempts)
    /\ attempts[a].pc = "Simulating"
    /\ now >= attempts[a].wake
    /\ LET r == process_message_redact(attempts[a].message_data,
                                       attempts[a].processing_time)
           status == response_status(process_message_result(TRUE))
       IN  IF r.raised
           THEN /\ attempts' = [attempts EXCEPT ![a].pc = "Failed",
                                                ![a].status = status]
                /\ items' = Responded(attempts[a].item, status)
           ELSE /\ attempts' = [attempts EXCEPT ![a].pc = "Persisting",
                                                ![a].message_data = r.message_data]
                /\ items' = [items EXCEPT ![attempts[a].item].envelope =
                                 PushEnvelope(Utf8Encode(JsonDumps(r.message_data)))]
    /\ UNCHANGED <<now, reqs, uuids, store, writes, gateway, redaction_patterns>>

\* Redact without waiting for time.sleep to return
RedactEarly(a) ==
    /\ a \in 1..Len(attempts)
    /\ attempts[a].pc = "Simulating"
    /\ LET r == process_message_redact(attempts[a].message_data,
                                       attempts[a].processing_time)
           status == response_status(process_message_result(TRUE))
       IN  IF r.raised
           THEN /\ attempts' = [attempts EXCEPT ![a].pc = "Failed",
                                                ![a].status = status]
                /\ items' = Responded(attempts[a].item, status)
           ELSE /\ attempts' = [attempts EXCEPT ![a].pc = "Persisting",
                                                ![a].message_data = r.message_data]
                /\ items' = items
    /\ UNCHANGED <<now, reqs, uuids, store, writes, gateway, redaction_patterns>>

\* Redact in a handler that is cancelled when the delay was longer than that of
\* one character: no response is sent and the attempt is left where it was
RedactOrCancel(a) ==
    /\ a \in 1..Len(attempts)
    /\ attempts[a].pc = "Simulating"
    /\ now >= attempts[a].wake
    /\ LET r == process_message_redact(attempts[a].message_data,
                                       attempts[a].processing_time)
           status == response_status(process_message_result(TRUE))
       IN  IF attempts[a].processing_time > PROCESSING_RATE_PER_CHAR
           THEN /\ attempts' = [attempts EXCEPT ![a].pc = "Cancelled"]
                /\ items' = items
           ELSE IF r.raised
           THEN /\ attempts' = [attempts EXCEPT ![a].pc = "Failed",
                                                ![a].status = status]
                /\ items' = Responded(attempts[a].item, status)
           ELSE /\ attempts' = [attempts EXCEPT ![a].pc = "Persisting",
                                                ![a].message_data = r.message_data]
                /\ items' = items
    /\ UNCHANGED <<now, reqs, uuids, store, writes, gateway, redaction_patterns>>

\* attempt a: time.sleep returns, then Redact
Redact(a) ==
    /\ a \in 1..Len(attempts)
    /\ attempts[a].pc = "Simulating"
    /\ now >= attempts[a].wake
    /\ LET r == process_message_redact(attempts[a].message_data,
                                       attempts[a].processing_time)
           status == response_status(process_message_result(TRUE))
       IN  IF r.raised
           THEN /\ attempts' = [attempts EXCEPT ![a].pc = "Failed",
                                                ![a].status = status]
                /\ items' = Responded(attempts[a].item, status)
           ELSE /\ attempts' = [attempts EXCEPT ![a].pc = "Persisting",
                                                ![a].message_data = r.message_data]
                /\ items' = items
    /\ UNCHANGED <<now, reqs, uuids, store, writes, gateway, redaction_patterns>>

\* attempt a: Persist and the response; up is whether the store accepts the write
Persist(a, up) ==
    /\ a \in 1..Len(attempts)
    /\ attempts[a].pc = "Persisting"
    /\ LET data == attempts[a].message_data.v
           w == write_to_firestore(store, Get(data, "tenant_id"), Get(data, "log_id"),
                                   data, now, up)
           success == process_message_result(w.raised)
           status == response_status(success)
       IN  /\ attempts' = [attempts EXCEPT
                   ![a].pc = IF success THEN "Acknowledged" ELSE "Failed",
                   ![a].status = status,
                   ![a].doc = w.doc]
           /\ items' = Responded(attempts[a].item, status)
           /\ store' = w.store
           /\ writes' = IF w.raised THEN writes
                        ELSE Append(writes, [attempt |-> a, after |-> w.store])
    /\ UNCHANGED <<now, reqs, uuids, gateway, redaction_patterns>>

\* the pipeline: the Gateway is the only publisher
Next ==
    \/ Tick
    \/ \E r \in 1..Len(Requests), pub \in {"raises", "future"} : Ingest(r, pub)
    \/ \E i \in 1..MaxRequests, accepted \in BOOLEAN : PublishDone(i, accepted)
    \/ \E k \in ItemIds : Deliver(k)
    \/ \E a \in 1..MaxAttempts : Redact(a)
    \/ \E a \in 1..MaxAttempts, up \in BOOLEAN : Persist(a, up)

Spec == Init /\ [][Next]_vars

\* The pipeline with the Worker's handler running on: time.sleep returns after
\* its duration, the statements after it are executed, and the call of the
\* store returns or raises.
WorkerStep ==
    \/ Tick
    \/ \E a \in 1..MaxAttempts : Redact(a)
    \/ \E a \in 1..MaxAttempts, up \in BOOLEAN : Persist(a, up)
Fairness == WF_vars(WorkerStep)

\* the pipeline with every request one that the Gateway accepts and the queue
\* takes: what the Worker then does with the deliveries
NextFair ==
    \/ Tick
    \/ \E r \in 1..Len(Requests) :
           ingest(Requests[r], Uuid4(1), 0, "future").status = 202
               /\ Ingest(r, "future")
    \/ \E i \in 1..MaxRequests : PublishDone(i, TRUE)
    \/ \E k \in ItemIds : Deliver(k)
    \/ \E a \in 1..MaxAttempts : Redact(a)
    \/ \E a \in 1..MaxAttempts, up \in BOOLEAN : Persist(a, up)

SpecFair == Init /\ [][NextFair]_vars /\ Fairness

\* the requests of the clients that are accepted for the key (a, x)
RequestsOfOneKey ==
    {r \in 1..Len(Requests) :
        LET res == ingest(Requests[r], Uuid4(1), 0, "future")
        IN  /\ res.status = 202
            /\ res.message.tenant_id = Str(<<"a">>)
            /\ res.message.log_id = Str(<<"x">>)}

\* the Worker receiving both the messages of accepted requests for one key and
\* one item that the Gateway did not publish
NextMixed ==
    \/ Tick
    \/ \E r \in RequestsOfOneKey : Ingest(r, "future")
    \/ \E i \in 1..MaxRequests : PublishDone(i, TRUE)
    \/ \E f \in 1..Len(ForeignEnvelopes) : ForeignPublish(MaxRequests + 1, f)
    \/ \E k \in ItemIds : Deliver(k)
    \/ \E a \in 1..MaxAttempts : Redact(a)
    \/ \E a \in 1..MaxAttempts, up \in BOOLEAN : Persist(a, up)

SpecMixed == Init /\ [][NextMixed]_vars

\* the pipeline carrying one request, any that a client can send
NextSingle ==
    \/ Tick
    \/ \E q \in GatewayInputs, pub \in {"raises", "future"} : Submit(q, pub)
    \/ \E i \in 1..MaxRequests, accepted \in BOOLEAN : PublishDone(i, accepted)
    \/ \E k \in ItemIds : Deliver(k)
    \/ \E a \in 1..MaxAttempts : Redact(a)
    \/ \E a \in 1..MaxAttempts, up \in BOOLEAN : Persist(a, up)

SpecSingle == Init /\ [][NextSingle]_vars

\* the Worker alone, receiving what the Gateway did not publish
NextForeign ==
    \/ \E k \in ItemIds, f \in 1..Len(ForeignEnvelopes) : ForeignPublish(k, f)
    \/ \E k \in ItemIds : Deliver(k)
    \/ \E a \in 1..MaxAttempts : Redact(a)

SpecForeign == Init /\ [][NextForeign]_vars

\* what os.getenv gives for GCP_PROJECT_ID and PUBSUB_TOPIC_ID: unset, set to
\* the empty string, set
EnvValues == {None, Str(<<>>), Str(<<"p">>)}

\* the import of the Gateway's module going on whatever the two values are
startup_lenient(project_id, topic_id) == "serving"

\* the import of the Gateway's module: a ValueError ends the process before the
\* application exists, else the routes are registered and the server runs
startup(project_id, topic_id) ==
    IF ~Truthy(project_id) \/ ~Truthy(topic_id) THEN "fatal" ELSE "serving"

Startup ==
    /\ gateway.state = "importing"
    /\ gateway' = [gateway EXCEPT
                      !.state = startup(gateway.project_id, gateway.topic_id)]
    /\ UNCHANGED <<now, reqs, uuids, items, attempts, store, writes, redaction_patterns>>

\* the Gateway process from its start, in every environment
InitStartup ==
    /\ now = 0
    /\ reqs = <<>>
    /\ uuids = 0
    /\ items = [k \in ItemIds |-> NoItem]
    /\ attempts = <<>>
    /\ store = {}
    /\ writes = <<>>
    /\ gateway \in [project_id : EnvValues, topic_id : EnvValues, state : {"importing"}]
    /\ redaction_patterns = REDACTION_PATTERNS

NextStartup ==
    \/ Startup
    \/ \E q \in GatewayInputs, pub \in {"raises", "future"} : Submit(q, pub)
    \/ \E i \in 1..MaxRequests, accepted \in BOOLEAN : PublishDone(i, accepted)

SpecStartup == InitStartup /\ [][NextStartup]_vars

\* the Gateway alone, answering one request out of all that a client can send
NextGateway ==
    \/ \E q \in GatewayInputs, pub \in {"raises", "future"} : Submit(q, pub)
    \/ \E i \in 1..MaxRequests, accepted \in BOOLEAN : PublishDone(i, accepted)

SpecGateway == Init /\ [][NextGateway]_vars

\* POST /ingest of Requests[r] starts: the handler's coroutine holds the request
\* and its headers in its locals and is suspended at await request.json() or
\* await request.body(); other requests are served meanwhile
Receive(r) ==
    /\ gateway.state = "serving"
    /\ Len(reqs) < MaxRequests
    /\ reqs' = Append(reqs, [input |-> r, request |-> Requests[r], status |-> 0,
                             body |-> [detail |-> "in flight"],
                             message |-> NoMessage,
                             publish |-> "none", publishes |-> 0])
    /\ UNCHANGED <<now, uuids, items, attempts, store, writes, gateway, redaction_patterns>>

\* the rest of the handler working on a request kept in a variable of the
\* module, which every arriving request overwrites
CompleteShared(i, pub) ==
    /\ i \in 1..Len(reqs)
    /\ reqs[i].status = 0
    /\ LET res == ingest(reqs[Len(reqs)].request, Uuid4(uuids + 1), now, pub)
       IN  /\ reqs' = [reqs EXCEPT ![i].status = res.status,
                                   ![i].body = res.body,
                                   ![i].message = res.message,
                                   ![i].publish = res.publish,
                                   ![i].publishes = res.publishes]
           /\ uuids' = IF res.publish = "none" THEN uuids ELSE uuids + 1
    /\ UNCHANGED <<now, items, attempts, store, writes, gateway, redaction_patterns>>

\* the body of request i has arrived: the handler resumes and runs, without
\* another suspension, the validation, the normalization, the publish and the
\* response, all on its own locals
Complete(i, pub) ==
    /\ i \in 1..Len(reqs)
    /\ reqs[i].status = 0
    /\ LET res == ingest(reqs[i].request, Uuid4(uuids + 1), now, pub)
       IN  /\ reqs' = [reqs EXCEPT ![i].status = res.status,
                                   ![i].body = res.body,
                                   ![i].message = res.message,
                                   ![i].publish = res.publish,
                                   ![i].publishes = res.publishes]
           /\ uuids' = IF res.publish = "none" THEN uuids ELSE uuids + 1
    /\ UNCHANGED <<now, items, attempts, store, writes, gateway, redaction_patterns>>

\* the Gateway alone with its requests in flight together
NextConcurrent ==
    \/ \E r \in 1..Len(Requests) : Receive(r)
    \/ \E i \in 1..MaxRequests, pub \in {"raises", "future"} : Complete(i, pub)
    \/ \E i \in 1..MaxRequests, accepted \in BOOLEAN : PublishDone(i, accepted)

SpecConcurrent == Init /\ [][NextConcurrent]_vars

\* the Worker processing one message, of any of the texts PhoneTexts
InitRedact ==
    /\ now = 0
    /\ reqs = <<>>
    /\ uuids = 0
    /\ \E text \in PhoneTexts :
           items = [k \in ItemIds |->
                       IF k = MaxRequests + 1
                       THEN [envelope |->
                                 PushEnvelope(Utf8Encode(JsonDumps(PhoneMessage(text)))),
                             state |-> "unacked"]
                       ELSE NoItem]
    /\ attempts = <<>>
    /\ store = {}
    /\ writes = <<>>
    /\ gateway = Serving
    /\ redaction_patterns = REDACTION_PATTERNS

NextRedact ==
    \/ Tick
    \/ \E k \in ItemIds : attempts = <<>> /\ Deliver(k)
    \/ \E a \in 1..MaxAttempts : Redact(a)
    \/ \E a \in 1..MaxAttempts : Persist(a, TRUE)

SpecRedact == InitRedact /\ [][NextRedact]_vars

\* the Worker processing one message of any of the texts PhoneTexts, the queue
\* delivering it again after an attempt that failed
NextRedeliver ==
    \/ Tick
    \/ \E k \in ItemIds :
           (\A a \in 1..Len(attempts) : attempts[a].pc \in {"Acknowledged", "Failed"})
               /\ Deliver(k)
    \/ \E a \in 1..MaxAttempts : Redact(a)
    \/ \E a \in 1..MaxAttempts, up \in BOOLEAN : Persist(a, up)

SpecRedeliver == InitRedact /\ [][NextRedeliver]_vars

\* a pattern that re.compile refuses: an unbalanced parenthesis
INVALID_PATTERN == [valid |-> FALSE, atoms |-> <<"(", "\\d">>]
\* the list s with x put in at position k
InsertAt(s, k, x) == SubSeq(s, 1, k - 1) \o <<x>> \o SubSeq(s, k, Len(s))
\* the list s in the opposite order
Reverse(s) == [k \in 1..Len(s) |-> s[Len(s) + 1 - k]]
\* Values of the environment variable REDACTION_PATTERNS: the default list, the
\* default list with an invalid pattern at each place, and the same in the
\* opposite order.
PatternLists ==
    {REDACTION_PATTERNS, Reverse(REDACTION_PATTERNS)}
        \cup {InsertAt(REDACTION_PATTERNS, k, INVALID_PATTERN) :
                  k \in 1..(Len(REDACTION_PATTERNS) + 1)}
        \cup {InsertAt(Reverse(REDACTION_PATTERNS), k, INVALID_PATTERN) :
                  k \in 1..(Len(REDACTION_PATTERNS) + 1)}
\* a pattern of list l matches s at some position
MatchedBy(l, s) ==
    \E p \in 1..Len(l), i \in 1..Len(s) :
        l[p].valid /\ MatchFrom(l[p].atoms, 1, s, i) # 0

\* the Worker, started with any of the lists, processing one message whose
\* text holds a phone number
InitPatterns ==
    /\ now = 0
    /\ reqs = <<>>
    /\ uuids = 0
    /\ \E text \in {t \in PhoneTexts : MatchedBy(REDACTION_PATTERNS, t)} :
           items = [k \in ItemIds |->
                       IF k = MaxRequests + 1
                       THEN [envelope |->
                                 PushEnvelope(Utf8Encode(JsonDumps(PhoneMessage(text)))),
                             state |-> "unacked"]
                       ELSE NoItem]
    /\ attempts = <<>>
    /\ store = {}
    /\ writes = <<>>
    /\ gateway = Serving
    /\ redaction_patterns \in PatternLists

SpecPatterns == InitPatterns /\ [][NextRedact]_vars

\* ================================================================= claims
\* -------------------------------------------------- vocabulary of the claims
Finished(a) == attempts[a].pc \in {"Acknowledged", "Failed"}
\* attempt a's Persist wrote a document
Persisted(a) == \E n \in 1..Len(writes) : writes[n].attempt = a
\* the message the Gateway published for request i
Published(i) == reqs[i].message
\* the attempt whose write is the last one at the path (tenant_id, log_id)
WritesAt(tenant_id, log_id) ==
    {n \in 1..Len(writes) :
        LET m == attempts[writes[n].attempt].message_data.v
        IN  m.tenant_id = Str(tenant_id) /\ m.log_id = Str(log_id)}
LastWriter(tenant_id, log_id) ==
    writes[CHOOSE n \in WritesAt(tenant_id, log_id) :
               \A o \in WritesAt(tenant_id, log_id) : o <= n].attempt

\* C1: a request is answered 202 only if the queue accepted its message: once
\* the publish has completed, a 202 goes with an accepted publish, and a publish
\* that failed (raised by the call, or reported by the future) goes with a
\* server error.
C1_AcceptedOnlyIfQueued ==
    \A i \in 1..Len(reqs) :
        /\ (reqs[i].status = 202 /\ reqs[i].publish # "pending")
               => reqs[i].publish = "queued"
        /\ reqs[i].publish \in {"raised", "failed"} => reqs[i].status >= 500

\* C2: a delivery is answered with a success status if and only if the attempt's
\* Persist wrote the document at the message's (tenant_id, log_id); no response
\* is given before that, and no item is acknowledged without such a write.
C2_AckIffPersisted ==
    /\ \A a \in 1..Len(attempts) :
           /\ Acknowledges(attempts[a].status) <=>
                  (Finished(a) /\ Persisted(a))
           /\ Persisted(a) =>
                  \E n \in 1..Len(writes) :
                      /\ writes[n].attempt = a
                      /\ LET m == Published(attempts[a].item)
                             d == Retrieve(writes[n].after, m.tenant_id.v, m.log_id.v)
                         IN  /\ m.tenant_id.t = "str" /\ m.log_id.t = "str"
                             /\ d # {}
                             /\ \A x \in d : x.doc = attempts[a].doc
                             /\ attempts[a].doc # NoDoc
           /\ ~Finished(a) => attempts[a].status = 0
    /\ \A k \in ItemIds :
           items[k].state = "acked" =>
               \E a \in 1..Len(attempts) : attempts[a].item = k /\ Persisted(a)

\* C2's case: an attempt answered 200 after its write, and one answered 500
C2_Witness ==
    \E a, b \in 1..Len(attempts) :
        /\ attempts[a].status = 200 /\ Persisted(a)
        /\ attempts[b].status = 500 /\ ~Persisted(b)
        /\ attempts[b].item = attempts[a].item

\* C3: every document stored under a tenant's partition was produced from a
\* message of that tenant: it is the document of the last write at its path,
\* made by an attempt on a message the Gateway published with that tenant_id and
\* log_id, and it carries that message's text; so a read at (tenant_b, log_x)
\* never finds what was written for (tenant_a, log_x).
C3_TenantIsolation ==
    \A d \in store :
        /\ WritesAt(d.tenant, d.log) # {}
        /\ LET a == LastWriter(d.tenant, d.log)
               m == Published(attempts[a].item)
           IN  /\ reqs[attempts[a].item].status = 202
               /\ m.tenant_id = Str(d.tenant)
               /\ m.log_id = Str(d.log)
               /\ d.doc = attempts[a].doc
               /\ d.doc.original_text = m.text
               /\ d.doc.received_at = m.received_at
               /\ d.doc.source = m.source
        /\ \A e \in store : (e.tenant = d.tenant /\ e.log = d.log) => e = d

\* C3's case: two tenants hold a document under the same log_id
C3_Witness ==
    \E d, e \in store :
        /\ d.log = e.log
        /\ d.tenant # e.tenant
        /\ d.doc.original_text # None
        /\ Retrieve(store, d.tenant, d.log) = {d}
        /\ Retrieve(store, e.tenant, e.log) = {e}

\* nothing is left to do: every publish has completed, every item on the
\* subscription is acknowledged and every attempt has ended
Settled ==
    /\ \A i \in 1..Len(reqs) : reqs[i].publish # "pending"
    /\ \A k \in ItemIds : items[k].state # "unacked"
    /\ \A a \in 1..Len(attempts) : Finished(a)

\* C4: every request answered 202 ends with a document stored under the
\* tenant_id and log_id of its response and with its message acknowledged: when
\* nothing is left to do, that has happened.
C4_AcceptedIsStored ==
    Settled =>
        \A i \in 1..Len(reqs) :
            reqs[i].status = 202 =>
                /\ reqs[i].body.tenant_id.t = "str"
                /\ reqs[i].body.log_id.t = "str"
                /\ Retrieve(store, reqs[i].body.tenant_id.v, reqs[i].body.log_id.v) # {}
                /\ items[i].state = "acked"

\* requests i, then j, accepted with the same (tenant_id, log_id) and different text
SameKey(i, j) ==
    /\ i < j
    /\ reqs[i].status = 202 /\ reqs[j].status = 202
    /\ Published(i).tenant_id.t = "str" /\ Published(i).log_id.t = "str"
    /\ Published(i).tenant_id = Published(j).tenant_id
    /\ Published(i).log_id = Published(j).log_id
    /\ Published(i).text # Published(j).text
\* both messages have been processed and no attempt on either is under way
BothProcessed(i, j) ==
    /\ items[i].state = "acked" /\ items[j].state = "acked"
    /\ \A a \in 1..Len(attempts) : attempts[a].item \in {i, j} => Finished(a)

SameButProcessedAt(x, y) ==
    /\ x.source = y.source
    /\ x.original_text = y.original_text
    /\ x.modified_data = y.modified_data
    /\ x.received_at = y.received_at
    /\ x.processing_time = y.processing_time
    /\ x.char_count = y.char_count

\* C6: two successful attempts on the same message write documents that differ
\* at most in processed_at; after each of them the store holds exactly one
\* document at the key, the one just written; and an attempt on a message that
\* was already persisted is not refused by the store for that.
C6_RedeliveryIdempotent ==
    /\ \A a, b \in 1..Len(attempts) :
           (attempts[a].item = attempts[b].item /\ Persisted(a) /\ Persisted(b))
               => SameButProcessedAt(attempts[a].doc, attempts[b].doc)
    /\ \A n \in 1..Len(writes) :
           LET a == writes[n].attempt
               m == Published(attempts[a].item)
           IN  Retrieve(writes[n].after, m.tenant_id.v, m.log_id.v)
                   = {[tenant |-> m.tenant_id.v, log |-> m.log_id.v,
                       doc |-> attempts[a].doc]}
    /\ \A a \in 1..Len(attempts) :
           (/\ attempts[a].pc = "Persisting"
            /\ \E b \in 1..Len(attempts) :
                   attempts[b].item = attempts[a].item /\ Persisted(b))
               => LET data == attempts[a].message_data.v
                  IN  ~write_to_firestore(store, data.tenant_id, data.log_id,
                                          data, now, TRUE).raised

\* C6's case: the same message persisted twice, at two different times
C6_Witness ==
    \E a, b \in 1..Len(attempts) :
        /\ a # b /\ attempts[a].item = attempts[b].item
        /\ Persisted(a) /\ Persisted(b)
        /\ attempts[a].doc.processed_at # attempts[b].doc.processed_at
        /\ \E d \in store : d.doc = attempts[b].doc

\* the decoded message carries a tenant_id and a log_id
KeysPresent(message_data) ==
    /\ message_data.t = "obj"
    /\ Truthy(Get(message_data.v, "tenant_id"))
    /\ Truthy(Get(message_data.v, "log_id"))
\* attempt a ended because Simulate, Redact or Persist raised
RaisedInProcessing(a) ==
    /\ Finished(a) /\ ~Persisted(a)
    /\ KeysPresent(attempts[a].message_data)

\* C7: an attempt in which Simulate, Redact or Persist raises is answered with a
\* non-success status, and the step that fails neither acknowledges the item nor
\* writes to the store; a later attempt on the item that succeeds has written
\* the message's document to the store and acknowledged the item.
C7_FailureThenRetry ==
    /\ [](\A a \in 1..Len(attempts) :
              /\ RaisedInProcessing(a) =>
                     (attempts[a].pc = "Failed" /\ ~Acknowledges(attempts[a].status))
              /\ \A b \in 1..Len(attempts) :
                     (/\ a < b /\ attempts[a].item = attempts[b].item
                      /\ RaisedInProcessing(a) /\ attempts[b].pc = "Acknowledged")
                         => /\ Persisted(b)
                            /\ items[attempts[b].item].state = "acked"
                            /\ \E n \in 1..Len(writes) :
                                   /\ writes[n].attempt = b
                                   /\ \E d \in writes[n].after :
                                          d.doc.original_text =
                                              Published(attempts[b].item).text)
    /\ [][\A a \in 1..Len(attempts) :
              (attempts[a].pc # "Failed" /\ attempts'[a].pc = "Failed")
                  => (items' = items /\ store' = store)]_vars

\* C7's case: Persist raised in one attempt, and a later attempt persisted
C7_Witness ==
    \E a, b \in 1..Len(attempts) :
        /\ a < b /\ attempts[a].item = attempts[b].item
        /\ RaisedInProcessing(a) /\ attempts[a].status = 500
        /\ attempts[b].pc = "Acknowledged" /\ Persisted(b)
        /\ items[attempts[b].item].state = "acked"

\* C8: a delivery whose envelope is malformed is answered with a success status
\* and so acknowledged.
C8_MalformedAcknowledged ==
    \A a \in 1..Len(attempts) :
        (Finished(a) /\ decode_envelope(items[attempts[a].item].envelope).status # 0)
            => (/\ Acknowledges(attempts[a].status)
                /\ items[attempts[a].item].state = "acked")

\* C9: a delivery whose decoded message lacks tenant_id or log_id is answered
\* with a success status and so acknowledged, not redelivered.
C9_MissingKeysAcknowledged ==
    \A a \in 1..Len(attempts) :
        LET dec == decode_envelope(items[attempts[a].item].envelope)
        IN  (/\ Finished(a) /\ dec.status = 0
             /\ dec.message_data.t = "obj" /\ ~KeysPresent(dec.message_data))
                => (/\ Acknowledges(attempts[a].status)
                    /\ items[attempts[a].item].state = "acked")

\* a request of the JSON variant whose text has n characters
RECURSIVE TextOfLength(_)
TextOfLength(n) == IF n = 0 THEN <<>> ELSE <<"k">> \o TextOfLength(n - 1)
\* the requests of the clients that pass validation
ValidRequests ==
    {r \in 1..Len(Requests) :
        ingest(Requests[r], Uuid4(1), 0, "future").status = 202}
\* the message of request i is unprocessed: no attempt on it has ended, and no
\* document was written from it
Unprocessed(i) ==
    \A a \in 1..Len(attempts) : attempts[a].item = i => ~Finished(a) /\ ~Persisted(a)

\* C10: whatever the Worker and the store are doing, the Gateway can answer
\* each valid request at once with 202, for every text length up to
\* MAX_TEXT_LENGTH, and no request answered 202 has waited for its message to be
\* processed: the answer is there while the message is unprocessed.
C10_NonBlocking ==
    /\ \A n \in 1..MAX_TEXT_LENGTH :
           ingest(JsonRequest([tenant_id |-> Str(<<"a">>),
                               text |-> Str(TextOfLength(n))]),
                  Uuid4(uuids + 1), now, "future").status = 202
    /\ Len(reqs) < MaxRequests =>
           \A r \in ValidRequests :
               ENABLED (/\ Ingest(r, "future")
                        /\ reqs'[Len(reqs')].status = 202
                        /\ attempts' = attempts /\ writes' = writes
                        /\ Unprocessed(Len(reqs) + 1))
    /\ \A i \in 1..Len(reqs) :
           (reqs[i].status = 202 /\ reqs[i].publish = "pending") => Unprocessed(i)

\* C10's case: a request has its 202 while the delay of its message is running
\* and no document is stored for it
C10_Witness ==
    \E i \in 1..Len(reqs), a \in 1..Len(attempts) :
        /\ reqs[i].status = 202
        /\ attempts[a].item = i /\ attempts[a].pc = "Simulating"
        /\ now < attempts[a].wake
        /\ Unprocessed(i)
        /\ Len(Requests[reqs[i].input].json.v.text.v) = MAX_TEXT_LENGTH
        /\ Retrieve(store, Published(i).tenant_id.v, Published(i).log_id.v) = {}


\* ------------------------------------------------ vocabulary of the Gateway
\* the variant of request q, as the Content-Type header declares it
DeclaredType(q) ==
    IF q.content_type.t = "null" THEN <<>> ELSE Lower(q.content_type.v)
IsJsonVariant(q) == Contains(DeclaredType(q), APPLICATION_JSON)
IsTextVariant(q) == ~IsJsonVariant(q) /\ Contains(DeclaredType(q), TEXT_PLAIN)
\* the tenant id that request q carries: the field, or the header
TenantOf(q) ==
    IF IsJsonVariant(q)
    THEN (IF q.json.t = "obj" THEN Get(q.json.v, "tenant_id") ELSE None)
    ELSE q.x_tenant_id
\* a tenant id as the specification defines it: a non-empty string of bounded
\* length whose characters are letters, digits, '_' and '-'
WellFormedTenantId(x) ==
    /\ x.t = "str"
    /\ Len(x.v) >= 1
    /\ Len(x.v) <= MAX_TENANT_ID_LENGTH
    /\ \A i \in 1..Len(x.v) : x.v[i] \in Letters \cup Digits \cup {"_", "-"}

\* C11: a request of the JSON or of the text variant whose tenant id is missing
\* or invalid is answered 400, nothing is published for it and the queue holds
\* nothing of it.
C11_BadTenantRejected ==
    \A i \in 1..Len(reqs) :
        LET q == reqs[i].request
        IN  ((IsJsonVariant(q) \/ IsTextVariant(q)) /\ ~WellFormedTenantId(TenantOf(q)))
                => /\ reqs[i].status = 400
                   /\ reqs[i].publish = "none"
                   /\ items[i].state = "none"

\* the rules of the JSON variant in the order of the specification, and the
\* first of them that request q violates ("none" when it violates none)
FirstViolated(q) ==
    LET body == q.json
        tenant_id == Get(body.v, "tenant_id")
        text == GetOr(body.v, "text", Str(<<>>))
        log_id == Get(body.v, "log_id")
    IN  IF body.t # "obj" THEN "malformed body"
        ELSE IF ~Truthy(tenant_id) THEN "missing tenant_id"
        ELSE IF ~WellFormedTenantId(tenant_id) THEN "invalid tenant_id"
        ELSE IF text.t # "str" \/ Len(text.v) < 1 \/ Len(text.v) > MAX_TEXT_LENGTH
             THEN "invalid text"
        ELSE IF Truthy(log_id) /\ StrLen(log_id) > MAX_LOG_ID_LENGTH
             THEN "invalid log_id"
        ELSE "none"
\* the rule that an error detail of the Gateway cites
RuleCited(detail) ==
    CASE detail \in {"Invalid JSON payload", "Invalid JSON payload: expected object"}
             -> "malformed body"
      [] detail = "Missing required field: tenant_id" -> "missing tenant_id"
      [] detail = "Invalid tenant_id format" -> "invalid tenant_id"
      [] detail = "log_id exceeds maximum length" -> "invalid log_id"
      [] OTHER -> "invalid text"

\* C12: a JSON request that violates one rule or several is answered 400 with
\* the detail of the first rule violated, in the order malformed body, missing
\* tenant_id, invalid tenant_id, invalid text, invalid log_id.
C12_FirstViolatedRuleCited ==
    \A i \in 1..Len(reqs) :
        LET q == reqs[i].request
        IN  (IsJsonVariant(q) /\ FirstViolated(q) # "none")
                => /\ reqs[i].status = 400
                   /\ RuleCited(reqs[i].body.detail) = FirstViolated(q)

\* the media type that a Content-Type header declares: its value up to the first
\* ';', in lower case, and none when the header is absent
MediaType(content_type) ==
    IF content_type.t = "null" THEN <<>>
    ELSE LET s == Lower(content_type.v)
             semi == {k \in 1..Len(s) : s[k] = ";"}
         IN  IF semi = {} THEN s
             ELSE SubSeq(s, 1, (CHOOSE k \in semi : \A o \in semi : k <= o) - 1)

\* C13: a request whose declared content type is neither JSON nor plain text,
\* or that declares none, is answered 415 whatever else it holds, and nothing is
\* published for it.
C13_OtherTypeUnsupported ==
    \A i \in 1..Len(reqs) :
        MediaType(reqs[i].request.content_type) \notin {APPLICATION_JSON, TEXT_PLAIN}
            => /\ reqs[i].status = 415
               /\ reqs[i].publish = "none"
               /\ items[i].state = "none"

\* the text that request q carries: the field, or the decoded body
TextOf(q) ==
    IF MediaType(q.content_type) = APPLICATION_JSON
    THEN (IF q.json.t = "obj" THEN GetOr(q.json.v, "text", Str(<<>>)) ELSE None)
    ELSE q.utf8
\* request q is of the JSON or of the text variant and valid in all but,
\* possibly, the length of its text
ValidButText(q) ==
    /\ MediaType(q.content_type) \in {APPLICATION_JSON, TEXT_PLAIN}
    /\ WellFormedTenantId(TenantOf(q))
    /\ TextOf(q).t = "str"
    /\ MediaType(q.content_type) = APPLICATION_JSON =>
           /\ q.json.t = "obj"
           /\ \/ "log_id" \notin DOMAIN q.json.v
              \/ LET log_id == Get(q.json.v, "log_id")
                 IN  log_id.t = "str" /\ Len(log_id.v) \in 1..MAX_LOG_ID_LENGTH

\* C14: an otherwise valid request with a text of L characters is accepted when
\* 0 < L <= MAX_TEXT_LENGTH, that is answered 202 once the publish call has
\* returned and never 400, and it is answered 400, with no publish, when L = 0
\* or L > MAX_TEXT_LENGTH.
C14_TextLengthBounds ==
    \A i \in 1..Len(reqs) :
        LET q == reqs[i].request
            L == Len(TextOf(q).v)
        IN  ValidButText(q) =>
                IF 0 < L /\ L <= MAX_TEXT_LENGTH
                THEN /\ reqs[i].status # 400
                     /\ reqs[i].publish # "none"
                     /\ reqs[i].publish # "raised" => reqs[i].status = 202
                ELSE reqs[i].status = 400 /\ reqs[i].publish = "none"

\* C14's case: a JSON request accepted with a text of MAX_TEXT_LENGTH characters
C14_Witness ==
    \E i \in 1..Len(reqs) :
        /\ ValidButText(reqs[i].request)
        /\ MediaType(reqs[i].request.content_type) = APPLICATION_JSON
        /\ Len(TextOf(reqs[i].request).v) = MAX_TEXT_LENGTH
        /\ reqs[i].status = 202
        /\ reqs[i].publish = "queued"

\* C15: validate_tenant_id accepts exactly the tenant ids of the specification,
\* non-empty strings of at most MAX_TENANT_ID_LENGTH letters, digits, '_' and
\* '-', and so the tenant_id of every message handed to the publisher is one.
C15_TenantIdCharset ==
    \A i \in 1..Len(reqs) :
        /\ validate_tenant_id(TenantOf(reqs[i].request))
               <=> WellFormedTenantId(TenantOf(reqs[i].request))
        /\ reqs[i].publish # "none" => WellFormedTenantId(reqs[i].message.tenant_id)

\* C16: the Gateway calls the publisher once for a request that passes
\* validation and not at all for one answered 400 or 415; no step after the
\* answer publishes again, whether the publish was accepted, failed or raised.
C16_OnePublishAttempt ==
    /\ [](\A i \in 1..Len(reqs) :
              /\ reqs[i].status \in {400, 415} =>
                     /\ reqs[i].publishes = 0
                     /\ reqs[i].publish = "none"
                     /\ items[i].state = "none"
              /\ reqs[i].status \notin {400, 415} =>
                     /\ reqs[i].publishes = 1
                     /\ reqs[i].publish # "none"
              /\ LET q == reqs[i].request
                 IN  (ValidButText(q) /\ Len(TextOf(q).v) \in 1..MAX_TEXT_LENGTH)
                         => reqs[i].publishes = 1)
    /\ [][\A i \in 1..Len(reqs) :
              /\ reqs'[i].publishes = reqs[i].publishes
              /\ reqs[i].publish # "pending" =>
                     /\ reqs'[i].publish = reqs[i].publish
                     /\ items'[i].envelope = items[i].envelope]_vars

\* C16's case: the one publish of an accepted request failed and nothing followed
C16_Witness ==
    \E i \in 1..Len(reqs) :
        /\ reqs[i].status = 202
        /\ reqs[i].publish = "failed"
        /\ reqs[i].publishes = 1
        /\ items[i].state = "none"

SuppliedLogId(q) ==
    IF IsJsonVariant(q) /\ q.json.t = "obj" /\ Truthy(Get(q.json.v, "log_id"))
    THEN Get(q.json.v, "log_id")
    ELSE None

\* C18: the message handed to the publisher, and the 202 response, carry a
\* non-empty string log_id: the caller's when one was supplied, a generated
\* identifier otherwise.
C18_LogIdAlwaysPresent ==
    \A i \in 1..Len(reqs) :
        reqs[i].publish # "none" =>
            LET log_id == reqs[i].message.log_id
                supplied == SuppliedLogId(reqs[i].request)
            IN  /\ log_id.t = "str" /\ Len(log_id.v) > 0
                /\ log_id = IF supplied # None THEN supplied ELSE Uuid4(1)
                /\ reqs[i].status = 202 => reqs[i].body.log_id = log_id

\* ------------------------------------------------ vocabulary of the Redactor
\* a configured pattern matches s at some position
HasMatch(s) ==
    \E p \in 1..Len(REDACTION_PATTERNS), i \in 1..Len(s) :
        MatchFrom(REDACTION_PATTERNS[p].atoms, 1, s, i) # 0
\* the text of the message that attempt a received from the queue
DeliveredText(a) ==
    decode_envelope(items[attempts[a].item].envelope).message_data.v.text

\* C19: the document written for a message holds the message's text unchanged
\* as original_text, and a modified_data in which no configured pattern matches
\* anywhere and in which the token [REDACTED] occurs if a pattern matched in
\* the text.
C19_NoResidualPhone ==
    \A n \in 1..Len(writes) :
        LET a == writes[n].attempt
            doc == attempts[a].doc
        IN  /\ doc.original_text = DeliveredText(a)
            /\ doc.modified_data.t = "str"
            /\ ~HasMatch(doc.modified_data.v)
            /\ HasMatch(doc.original_text.v) => Contains(doc.modified_data.v, REDACTED)
            /\ \E d \in writes[n].after : d.doc = doc

\* C19's case: a stored text with a phone number between other characters
C19_Witness ==
    \E d \in store :
        /\ HasMatch(d.doc.original_text.v)
        /\ d.doc.original_text.v[1] = "x"
        /\ d.doc.modified_data.v # d.doc.original_text.v
        /\ Contains(d.doc.modified_data.v, REDACTED)

\* s has no digit
NoDigit(s) == \A i \in 1..Len(s) : s[i] \notin Digits

\* C20: a phone number of one of the three shapes, standing in a text that has
\* no other digit, is replaced as a whole by one [REDACTED] token: the stored
\* modified_data is the text with the token in the number's place.
C20_WholeNumberRedacted ==
    \A d \in store :
        LET o == d.doc.original_text.v
        IN  \A p \in 1..Len(REDACTION_PATTERNS), i \in 1..Len(o) :
                LET e == MatchFrom(REDACTION_PATTERNS[p].atoms, 1, o, i)
                IN  (e # 0 /\ NoDigit(SubSeq(o, 1, i - 1)) /\ NoDigit(SubSeq(o, e, Len(o))))
                        => d.doc.modified_data.v =
                               SubSeq(o, 1, i - 1) \o REDACTED \o SubSeq(o, e, Len(o))

\* C21: the document written for a message records as processing_time the
\* length of the message's text times PROCESSING_RATE_PER_CHAR, and as
\* char_count that length.
C21_ProcessingTimeRecorded ==
    \A n \in 1..Len(writes) :
        LET a == writes[n].attempt
            text == DeliveredText(a)
        IN  /\ text.t = "str"
            /\ attempts[a].doc.processing_time = Len(text.v) * PROCESSING_RATE_PER_CHAR
            /\ attempts[a].doc.char_count = Len(text.v)
            /\ attempts[a].doc.original_text = text
            /\ \E d \in writes[n].after : d.doc = attempts[a].doc

\* C21's case: a stored document for a text of twelve characters
C21_Witness ==
    \E d \in store :
        /\ d.doc.char_count = 12
        /\ Len(d.doc.original_text.v) = 12
        /\ d.doc.processing_time = 12 * PROCESSING_RATE_PER_CHAR

\* C22: at every moment the store holds at most one document at a key, and it
\* is, field for field, the document that the last Persist at that key wrote,
\* also when the attempts at the key overlap.
C22_LastWriteWinsWhole ==
    \A d \in store :
        /\ Retrieve(store, d.tenant, d.log) = {d}
        /\ WritesAt(d.tenant, d.log) # {}
        /\ d.doc = attempts[LastWriter(d.tenant, d.log)].doc

\* C22's case: two attempts at one key that overlapped, the one delivered first
\* persisting last, at a later time, and both finished
C22_Witness ==
    \E m, n \in 1..Len(writes) :
        /\ m < n
        /\ writes[n].attempt < writes[m].attempt
        /\ Finished(writes[m].attempt) /\ Finished(writes[n].attempt)
        /\ LET x == attempts[writes[m].attempt].message_data.v
               y == attempts[writes[n].attempt].message_data.v
           IN  x.tenant_id = y.tenant_id /\ x.log_id = y.log_id
        /\ attempts[writes[m].attempt].doc.processed_at
               < attempts[writes[n].attempt].doc.processed_at
        /\ \E d \in store : d.doc = attempts[writes[n].attempt].doc

\* request j repeats request i, and both were accepted
Resent(i, j) ==
    /\ i < j
    /\ reqs[i].request = reqs[j].request
    /\ reqs[i].status = 202 /\ reqs[j].status = 202
\* the documents stored for the messages of requests i and j
StoredFor(i, j) ==
    {d \in store : \E k \in {i, j} :
        Str(d.tenant) = Published(k).tenant_id /\ Str(d.log) = Published(k).log_id}

\* C23: when an accepted request is sent again and accepted again, with a
\* log_id of the caller both messages have the same tenant_id, log_id, text and
\* source and, both processed, one document is stored for them; without one
\* (no field, or the text variant) the two messages have different log_ids and,
\* both processed, two documents are stored.
C23_RetryIdempotentWithLogId ==
    \A i, j \in 1..Len(reqs) :
        Resent(i, j) =>
            LET x == Published(i)
                y == Published(j)
                done == items[i].state = "acked" /\ items[j].state = "acked"
            IN  IF SuppliedLogId(reqs[i].request) # None
                THEN /\ x.tenant_id = y.tenant_id /\ x.log_id = y.log_id
                     /\ x.text = y.text /\ x.source = y.source
                     /\ x.log_id = SuppliedLogId(reqs[i].request)
                     /\ done => Cardinality(StoredFor(i, j)) = 1
                ELSE (IsTextVariant(reqs[i].request)
                          \/ "log_id" \notin DOMAIN reqs[i].request.json.v)
                         => /\ x.log_id # y.log_id
                            /\ done => Cardinality(StoredFor(i, j)) = 2

\* C23's case: a text request sent twice, both messages processed
C23_Witness ==
    \E i, j \in 1..Len(reqs) :
        /\ Resent(i, j)
        /\ IsTextVariant(reqs[i].request)
        /\ items[i].state = "acked" /\ items[j].state = "acked"
        /\ Cardinality(StoredFor(i, j)) = 2

\* C24: a step in which the Gateway answers a request, or a publish completes,
\* leaves the store as it was; the store changes only in a step in which one
\* attempt goes from Persisting to Acknowledged, and then by that attempt's
\* document at the key of its message.
C24_OnlyPersistWrites ==
    [][/\ reqs' # reqs => store' = store
       /\ store' # store =>
              \E a \in 1..Len(attempts) :
                  /\ attempts[a].pc = "Persisting"
                  /\ attempts'[a].pc = "Acknowledged"
                  /\ writes' = Append(writes, [attempt |-> a, after |-> store'])
                  /\ LET m == attempts[a].message_data.v
                     IN  store' = {d \in store : ~(Str(d.tenant) = m.tenant_id
                                                     /\ Str(d.log) = m.log_id)}
                                     \cup {[tenant |-> m.tenant_id.v, log |-> m.log_id.v,
                                            doc |-> attempts'[a].doc]}]_vars

\* C24's case: a document is stored, and requests were answered, one of them
\* rejected
C24_Witness ==
    /\ store # {}
    /\ Len(writes) = 1
    /\ Len(reqs) = 2
    /\ reqs[1].status = 202
    /\ reqs[2].status = 400

\* C25: the message handed to the publisher has source json_upload when the
\* JSON branch handled the request and text_upload when the text branch did, and
\* the document written for a message has the source and the received_at of
\* the message.
C25_SourceAndReceivedAt ==
    /\ \A i \in 1..Len(reqs) :
           reqs[i].publish # "none" =>
               Published(i).source =
                   IF IsJsonVariant(reqs[i].request) THEN "json_upload" ELSE "text_upload"
    /\ \A n \in 1..Len(writes) :
           LET a == writes[n].attempt
               m == Published(attempts[a].item)
           IN  /\ attempts[a].doc.source = m.source
               /\ attempts[a].doc.received_at = m.received_at
               /\ \A d \in Retrieve(writes[n].after, m.tenant_id.v, m.log_id.v) :
                      d.doc.source = m.source /\ d.doc.received_at = m.received_at

\* C25's case: a stored document of a text request received after the clock
\* had advanced
C25_Witness ==
    \E d \in store :
        /\ d.doc.source = "text_upload"
        /\ d.doc.received_at > 0
        /\ d.doc.processed_at > d.doc.received_at

\* an identity value of the Gateway is missing
IdentityMissing == ~Truthy(gateway.project_id) \/ ~Truthy(gateway.topic_id)

\* C26: a Gateway started without its project or topic identity never serves:
\* its start ends in the fatal state, in which nothing happens any more, and no
\* request is ever answered by it, with an error or otherwise.
C26_MissingIdentityFatal ==
    /\ [](IdentityMissing => (gateway.state # "serving" /\ reqs = <<>>))
    /\ [][((IdentityMissing /\ gateway.state = "importing")
               => gateway'.state = "fatal")
           /\ (gateway.state = "fatal" => vars' = vars)]_vars

\* C26's case: the start has failed for a missing topic identity
C26_Witness ==
    /\ gateway.state = "fatal"
    /\ Truthy(gateway.project_id)
    /\ ~Truthy(gateway.topic_id)

\* C27: the body of every 202 response has the four fields status,
\* message_id, tenant_id and log_id.
C27_ResponseHasMessageId ==
    \A i \in 1..Len(reqs) :
        reqs[i].status = 202 =>
            {"status", "message_id", "tenant_id", "log_id"} \subseteq DOMAIN reqs[i].body

\* the steps an attempt can take from one position to the next
StepsOfAttempt ==
    {<<"Simulating", "Persisting">>, <<"Simulating", "Failed">>,
     <<"Persisting", "Acknowledged">>, <<"Persisting", "Failed">>}

\* C28: an attempt is past Redact only when its whole delay has passed and its
\* message carries the redacted text; it has written only if it is past
\* Persist, and has answered with success only if it wrote; it moves only
\* from Simulating to Persisting, from Persisting to Acknowledged, or from
\* either to Failed, and Failed and Acknowledged are final.
C28_StepsInOrder ==
    /\ [](\A a \in 1..Len(attempts) :
              /\ attempts[a].pc \in {"Persisting", "Acknowledged"} =>
                     /\ now >= attempts[a].wake
                     /\ LET m == attempts[a].message_data.v
                        IN  /\ m.modified_text = Str(redact_phone_numbers(m.text.v))
                            /\ m.processing_time
                                   = Len(m.text.v) * PROCESSING_RATE_PER_CHAR
              /\ Persisted(a) =>
                     /\ attempts[a].pc = "Acknowledged"
                     /\ attempts[a].doc.processed_at >= attempts[a].wake
              /\ attempts[a].pc = "Acknowledged" => Persisted(a)
              /\ attempts[a].pc = "Failed" =>
                     (~Persisted(a) /\ ~Acknowledges(attempts[a].status)))
    /\ [][\A a \in 1..Len(attempts) :
              \/ attempts'[a].pc = attempts[a].pc
              \/ <<attempts[a].pc, attempts'[a].pc>> \in StepsOfAttempt]_vars

\* C28's case: one attempt failed at Persist, after its delay and redaction, and
\* another went through to Acknowledged
C28_Witness ==
    \E a, b \in 1..Len(attempts) :
        /\ attempts[a].pc = "Failed"
        /\ "modified_text" \in DOMAIN attempts[a].message_data.v
        /\ attempts[a].wake > 0
        /\ attempts[b].pc = "Acknowledged"
        /\ attempts[b].doc.processed_at >= attempts[b].wake

\* the content of a message: its five fields
Content(m) ==
    [tenant_id |-> m.tenant_id, log_id |-> m.log_id, text |-> m.text,
     source |-> m.source, received_at |-> m.received_at]

\* C29: what the queue holds for a published message is, at every moment, the
\* content the Gateway gave it, and no step changes it; every attempt starts
\* from exactly that content, and what an attempt adds to its copy, modified_text
\* and processing_time, leaves the five fields of the copy as they were.
C29_PublishedImmutable ==
    /\ [](\A i \in 1..Len(reqs) :
              items[i].state # "none" =>
                  decode_envelope(items[i].envelope).message_data = Obj(Published(i)))
    /\ [](\A a \in 1..Len(attempts) :
              /\ attempts[a].pc = "Simulating" =>
                     attempts[a].message_data = Obj(Published(attempts[a].item))
              /\ attempts[a].pc \in {"Persisting", "Acknowledged"} =>
                     /\ Content(attempts[a].message_data.v)
                            = Published(attempts[a].item)
                     /\ DOMAIN attempts[a].message_data.v
                            = DOMAIN Published(attempts[a].item)
                                  \cup {"modified_text", "processing_time"})
    /\ [][\A k \in ItemIds :
              items[k].state # "none" => items'[k].envelope = items[k].envelope]_vars

\* C29's case: a redelivery in its delay, carrying the published content, after
\* an earlier attempt on the item had added its fields to its own copy
C29_Witness ==
    \E a, b \in 1..Len(attempts) :
        /\ a < b /\ attempts[a].item = attempts[b].item
        /\ "modified_text" \in DOMAIN attempts[a].message_data.v
        /\ attempts[a].pc = "Failed"
        /\ attempts[b].pc = "Simulating"
        /\ attempts[b].message_data = Obj(Published(attempts[b].item))

\* the loaded list without its invalid patterns
ValidPatterns == SelectSeq(redaction_patterns, LAMBDA p : p.valid)

\* C30: with an invalid pattern in the loaded list, the attempt goes through:
\* it does not fail in Redact, and the modified_data it stores is what the
\* list without its invalid patterns gives for the text, in the list's order.
C30_InvalidPatternSkipped ==
    /\ \A a \in 1..Len(attempts) : attempts[a].pc # "Failed"
    /\ \A a \in 1..Len(attempts) :
           attempts[a].pc \in {"Persisting", "Acknowledged"} =>
               attempts[a].message_data.v.modified_text
                   = Str(RedactWith(ValidPatterns, 1, attempts[a].message_data.v.text.v))
    /\ \A n \in 1..Len(writes) :
           LET a == writes[n].attempt
           IN  /\ attempts[a].doc.modified_data
                      = Str(RedactWith(ValidPatterns, 1, DeliveredText(a).v))
               /\ \E d \in store : d.doc = attempts[a].doc

\* C30's case: the invalid pattern stands first in the loaded list, and the
\* stored text was redacted by the patterns after it
C30_Witness ==
    /\ ~redaction_patterns[1].valid
    /\ \E d \in store :
           /\ d.doc.modified_data # d.doc.original_text
           /\ Contains(d.doc.modified_data.v, REDACTED)

\* C31: in the text variant the message handed to the publisher, and the one
\* the queue then holds, has the X-Tenant-ID header as tenant_id, the whole
\* decoded body as text and a generated log_id, whatever the body parses to;
\* a body that is not valid UTF-8 is answered 400 and nothing is published.
C31_TextVariantVerbatim ==
    \A i \in 1..Len(reqs) :
        LET q == reqs[i].request
        IN  IsTextVariant(q) =>
                /\ (q.utf8.t = "error" =>
                       /\ reqs[i].status = 400
                       /\ reqs[i].publish = "none"
                       /\ reqs[i].publishes = 0
                       /\ items[i] = NoItem)
                /\ (reqs[i].publish # "none" =>
                       /\ reqs[i].message.tenant_id = q.x_tenant_id
                       /\ reqs[i].message.text = q.utf8
                       /\ reqs[i].message.log_id = Uuid4(1)
                       /\ reqs[i].message.source = "text_upload")
                /\ (items[i].state # "none" =>
                       LET m == decode_envelope(items[i].envelope).message_data
                       IN  /\ m.t = "obj"
                           /\ m.v.tenant_id = q.x_tenant_id
                           /\ m.v.text = q.utf8
                           /\ m.v.log_id = Uuid4(1))

\* C31's case: a text request whose body is a JSON object naming another
\* tenant and a log_id, accepted and queued
C31_Witness ==
    \E i \in 1..Len(reqs) :
        /\ IsTextVariant(reqs[i].request)
        /\ reqs[i].request.json = JSON_LOOKING
        /\ reqs[i].request.x_tenant_id = Str(<<"a">>)
        /\ reqs[i].status = 202
        /\ reqs[i].publish = "queued"
        /\ items[i].state = "unacked"

\* C31's other case: a text request with a valid header whose body is not UTF-8
C31_WitnessNotUtf8 ==
    \E i \in 1..Len(reqs) :
        /\ IsTextVariant(reqs[i].request)
        /\ reqs[i].request.x_tenant_id = Str(<<"a">>)
        /\ reqs[i].request.utf8.t = "error"
        /\ reqs[i].status = 400

\* the log_id that request q itself fixes: the value of its log_id key when its
\* body is a JSON object with that key
OwnLogId(q) ==
    IF IsJsonVariant(q) /\ q.json.t = "obj" /\ "log_id" \in DOMAIN q.json.v
    THEN q.json.v.log_id
    ELSE Absent
\* the identifiers the generator gives
Generated == {Uuid4(n) : n \in 1..MaxRequests}

\* C32: with requests in flight together in any interleaving, the message of
\* each request has the tenant_id and the text of that request and its log_id
\* (the request's own, or a generated one), the queue holds that message, the
\* 202 response echoes its tenant_id and log_id, and two requests that have no
\* log_id get different generated ones.
C32_RequestsDoNotInterfere ==
    /\ \A i \in 1..Len(reqs) :
           LET q == reqs[i].request
               m == reqs[i].message
           IN  /\ reqs[i].publish # "none" =>
                      /\ m.tenant_id = TenantOf(q)
                      /\ m.text = TextOf(q)
                      /\ m.source = IF IsJsonVariant(q) THEN "json_upload"
                                    ELSE "text_upload"
                      /\ IF OwnLogId(q) # Absent THEN m.log_id = OwnLogId(q)
                         ELSE m.log_id \in Generated
               /\ reqs[i].status = 202 =>
                      /\ reqs[i].publish # "none"
                      /\ reqs[i].body.tenant_id = TenantOf(q)
                      /\ reqs[i].body.log_id = m.log_id
               /\ items[i].state # "none" =>
                      decode_envelope(items[i].envelope).message_data = Obj(m)
    /\ \A i, j \in 1..Len(reqs) :
           (/\ i # j
            /\ reqs[i].publish # "none" /\ reqs[j].publish # "none"
            /\ OwnLogId(reqs[i].request) = Absent
            /\ OwnLogId(reqs[j].request) = Absent)
           => reqs[i].message.log_id # reqs[j].message.log_id

\* C32's case: two requests without log_id in flight together, the one that
\* arrived second answered first, both accepted and queued
C32_Witness ==
    /\ Len(reqs) >= 2
    /\ OwnLogId(reqs[1].request) = Absent
    /\ OwnLogId(reqs[2].request) = Absent
    /\ reqs[1].status = 202 /\ reqs[2].status = 202
    /\ reqs[2].message.log_id = Uuid4(1)
    /\ reqs[1].message.log_id = Uuid4(2)
    /\ reqs[1].message.tenant_id # reqs[2].message.tenant_id
    /\ items[1].state = "unacked" /\ items[2].state = "unacked"

\* the positions an attempt's handler can go to from position pc
Successors(pc) ==
    CASE pc = "Simulating" -> {"Persisting", "Failed"}
      [] pc = "Persisting" -> {"Acknowledged", "Failed"}
      [] OTHER -> {}

\* C33: an attempt, once started, is never dropped or cancelled: it only moves
\* on to a next step of its handler, a finished attempt stays as it ended, and
\* every attempt started ends Acknowledged or Failed.
C33_AttemptTerminates ==
    /\ [][/\ Len(attempts') >= Len(attempts)
          /\ \A a \in 1..Len(attempts) :
                 \/ attempts'[a] = attempts[a]
                 \/ attempts'[a].pc \in Successors(attempts[a].pc)]_vars
    /\ \A a \in 1..MaxAttempts :
           (Len(attempts) >= a) ~> (Len(attempts) >= a /\ Finished(a))

\* C33's case: every attempt that could start has ended, one of them written
\* and acknowledged, another failed in its write after the delay
C33_Witness ==
    /\ Len(attempts) = MaxAttempts
    /\ \A a \in 1..Len(attempts) : Finished(a)
    /\ \E a \in 1..Len(attempts) :
           attempts[a].pc = "Acknowledged" /\ attempts[a].processing_time > 0
    /\ \E a \in 1..Len(attempts) :
           /\ attempts[a].pc = "Failed"
           /\ attempts[a].processing_time > 0
           /\ "modified_text" \in DOMAIN attempts[a].message_data.v

\* attempt a ends Failed in the step
FailsNow(a) ==
    /\ attempts'[a].pc = "Failed"
    /\ (a > Len(attempts) \/ attempts[a].pc # "Failed")

\* C34: a step in which an attempt fails leaves the store as it was, the store
\* changes only in the step that ends an attempt Acknowledged, and no write is
\* ever that of a failed attempt.
C34_FailedAttemptWritesNothing ==
    /\ [][/\ \A a \in 1..Len(attempts') : FailsNow(a) => store' = store
          /\ store' # store =>
                 \E a \in 1..Len(attempts) :
                     /\ attempts[a].pc = "Persisting"
                     /\ attempts'[a].pc = "Acknowledged"
                     /\ \A b \in 1..Len(attempts) :
                            b # a => attempts'[b] = attempts[b]]_vars
    /\ [](\A a \in 1..Len(attempts) :
              attempts[a].pc = "Failed" => ~Persisted(a))

\* C34's case: a document written, then an attempt for the same key with
\* another text failing in Persist: the document is still the first one
C34_Witness ==
    /\ Len(attempts) = 2
    /\ attempts[1].pc = "Acknowledged"
    /\ attempts[2].pc = "Failed"
    /\ attempts[2].message_data.t = "obj"
    /\ "modified_text" \in DOMAIN attempts[2].message_data.v
    /\ attempts[2].message_data.v.tenant_id = attempts[1].message_data.v.tenant_id
    /\ attempts[2].message_data.v.log_id = attempts[1].message_data.v.log_id
    /\ attempts[2].message_data.v.text # attempts[1].message_data.v.text
    /\ store = writes[1].after
    /\ \E d \in store : d.doc = attempts[1].doc

\* C34's other cases: after a document was written, an attempt failing in
\* Decode, one failing for a missing key, one failing in Redact
C34_WitnessDecode ==
    /\ Len(attempts) = 2
    /\ attempts[1].pc = "Acknowledged"
    /\ attempts[2].pc = "Failed"
    /\ attempts[2].message_data = None
    /\ store = writes[1].after
C34_WitnessMissingKey ==
    /\ Len(attempts) = 2
    /\ attempts[1].pc = "Acknowledged"
    /\ attempts[2].pc = "Failed"
    /\ attempts[2].message_data.t = "obj"
    /\ ~KeysPresent(attempts[2].message_data)
    /\ store = writes[1].after
C34_WitnessRedact ==
    /\ Len(attempts) = 2
    /\ attempts[1].pc = "Acknowledged"
    /\ attempts[2].pc = "Failed"
    /\ attempts[2].message_data.t = "obj"
    /\ KeysPresent(attempts[2].message_data)
    /\ attempts[2].message_data.v.text.t = "list"
    /\ store = writes[1].after

\* the keys (tenant_id, log_id) at which store st has a document
Keys(st) == {<<d.tenant, d.log>> : d \in st}

\* C35: in every step, the documents at a key change only when an attempt on
\* a message of that key ends its Persist with a write; the documents at every
\* other key, of the same tenant or of another, are left as they were.
C35_PersistTouchesOnlyItsKey ==
    [][\A key \in Keys(store) \cup Keys(store') :
           Retrieve(store', key[1], key[2]) # Retrieve(store, key[1], key[2]) =>
               \E a \in 1..Len(attempts) :
                   /\ attempts[a].pc = "Persisting"
                   /\ attempts'[a].pc = "Acknowledged"
                   /\ attempts[a].message_data.v.tenant_id = Str(key[1])
                   /\ attempts[a].message_data.v.log_id = Str(key[2])]_vars

\* C35's case: two attempts in flight together on two keys of one tenant, the
\* one started second writing first; both documents are in the store
C35_Witness ==
    /\ Len(writes) = 2
    /\ writes[1].attempt = 2
    /\ writes[2].attempt = 1
    /\ attempts[1].message_data.v.tenant_id = attempts[2].message_data.v.tenant_id
    /\ attempts[1].message_data.v.log_id # attempts[2].message_data.v.log_id
    /\ Cardinality(store) = 2
    /\ \A a \in 1..2 : \E d \in store : d.doc = attempts[a].doc

\* the keys (tenant_id, log_id) of the messages that the Gateway published and
\* the queue took
PublishedKeys ==
    {<<Published(i).tenant_id, Published(i).log_id>> :
        i \in {j \in 1..Len(reqs) : reqs[j].publish = "queued"}}

\* C36: with the Gateway as the only publisher, every document in the store is
\* at the key of a message that the Gateway published, so the store never has
\* more documents than there are distinct keys among the published messages.
C36_StoredKeysWerePublished ==
    /\ \A d \in store : <<Str(d.tenant), Str(d.log)>> \in PublishedKeys
    /\ Cardinality(store) <= Cardinality(PublishedKeys)

\* C36's case: two messages published for one key and both written, the store
\* holding the one document of that key
C36_Witness ==
    /\ Len(reqs) = 2
    /\ reqs[1].publish = "queued" /\ reqs[2].publish = "queued"
    /\ Cardinality(PublishedKeys) = 1
    /\ Len(writes) = 2
    /\ writes[1].attempt # writes[2].attempt
    /\ attempts[1].item # attempts[2].item
    /\ Cardinality(store) = 1

\* C37: every tenant under which the store holds a document is a well-formed
\* tenant id: non-empty, of at most MAX_TENANT_ID_LENGTH characters, all of
\* them letters, digits, '_' or '-'.
C37_StoredTenantWellFormed ==
    \A d \in store : WellFormedTenantId(Str(d.tenant))

\* attempt a has redacted its text
Redacted(a) ==
    /\ attempts[a].message_data.t = "obj"
    /\ "modified_text" \in DOMAIN attempts[a].message_data.v

\* C38: with the default patterns, two attempts on the same text get the same
\* redacted text; redacting a redacted text again gives it back unchanged; and
\* a text in which no pattern matches is its own redacted text.
C38_RedactionIdempotent ==
    /\ \A a \in 1..Len(attempts) :
           Redacted(a) =>
               LET text == attempts[a].message_data.v.text.v
                   modified_text == attempts[a].message_data.v.modified_text.v
               IN  /\ redact_phone_numbers(modified_text) = modified_text
                   /\ ~HasMatch(text) => modified_text = text
    /\ \A a, b \in 1..Len(attempts) :
           (/\ Redacted(a) /\ Redacted(b)
            /\ attempts[a].message_data.v.text = attempts[b].message_data.v.text)
           => attempts[a].message_data.v.modified_text
                  = attempts[b].message_data.v.modified_text

\* C38's case: a text with a phone number and more, redacted in an attempt that
\* failed and again in the next one
C38_Witness ==
    /\ Len(attempts) = 2
    /\ Redacted(1) /\ Redacted(2)
    /\ attempts[1].pc = "Failed"
    /\ attempts[2].pc = "Acknowledged"
    /\ HasMatch(attempts[1].message_data.v.text.v)
    /\ attempts[2].message_data.v.modified_text.v = <<"x">> \o REDACTED \o <<"x">>

\* C38's other case: a text with digits in which no pattern matches
C38_WitnessNoMatch ==
    \E a \in 1..Len(attempts) :
        /\ Redacted(a)
        /\ ~HasMatch(attempts[a].message_data.v.text.v)
        /\ ~NoDigit(attempts[a].message_data.v.text.v)
        /\ attempts[a].pc = "Acknowledged"

====
